---- MODULE Spec2Model ----
(***************************************************************************)
(* Model of the gruno execution engine (package internal/runner):          *)
(* RunFolder's scheduler (sequential and parallel mode, iterations, bail), *)
(* executeParsed's per-repetition phases, the request builder's            *)
(* unresolved-variable check and executeTests' result assembly.            *)
(***************************************************************************)
EXTENDS Integers, Sequences, FiniteSets, TLC

\* ---------------------------------------------------------------- bounds
MaxCases == 2
MaxIter == 2
MaxFaults == 1

\* ---------------------------------------------------------------- maps
EmptyMap == [k \in {} |-> ""]

\* maps.Copy(dst, src): src's entries overwrite dst's
MapsCopy(dst, src) ==
  [k \in (DOMAIN dst) \cup (DOMAIN src) |-> IF k \in DOMAIN src THEN src[k] ELSE dst[k]]

cloneStringMap(in) == MapsCopy(EmptyMap, in)

cloneAnyMap(in) == MapsCopy(EmptyMap, in)

MapDelete(m, key) == [k \in (DOMAIN m) \ {key} |-> m[k]]

MapSet(m, key, val) == [k \in (DOMAIN m) \cup {key} |-> IF k = key THEN val ELSE m[k]]

\* ---------------------------------------------------------------- errors
\* An error / an errorText is a sequence of text fragments; << >> is nil / "".
NoErr == << >>

\* ---------------------------------------------------------------- URLs
\* A URL template is a sequence of segments: literal text, a {{name}}
\* placeholder (what parser.VarPattern matches) or a :name path parameter.
Lit(s) == [kind |-> "lit", name |-> s]
Var(n) == [kind |-> "var", name |-> n]
Param(n) == [kind |-> "param", name |-> n]

\* expander.expand on one segment: a resolvable placeholder becomes its value;
\* expander.get looks in the expander's map first, then in the OS environment
ExpandSeg(seg, vars, env) ==
  IF seg.kind = "var" /\ (seg.name \in DOMAIN vars \/ seg.name \in DOMAIN env)
  THEN Lit(IF seg.name \in DOMAIN vars THEN vars[seg.name] ELSE env[seg.name])
  ELSE seg

expand(s, vars, env) == [i \in 1..Len(s) |-> ExpandSeg(s[i], vars, env)]

\* strings.ReplaceAll(url, ":"+k, exp.expand(v)) for every path parameter
SubstPathParams(url, params, vars, env) ==
  [i \in 1..Len(url) |->
     IF url[i].kind = "param" /\ url[i].name \in DOMAIN params
     THEN ExpandSeg(params[url[i].name], vars, env)
     ELSE url[i]]

\* The name collection stopping at the first match.
UnresolvedNamesFirstOnly(url) ==
  LET idx == {i \in 1..Len(url) : url[i].kind = "var"}
  IN IF idx = {} THEN << >>
     ELSE <<url[CHOOSE i \in idx : \A j \in idx : i <= j].name>>

RECURSIVE UnresolvedNames(_)
UnresolvedNames(url) ==
  IF url = << >> THEN << >>
  ELSE IF Head(url).kind = "var"
       THEN <<Head(url).name>> \o UnresolvedNames(Tail(url))
       ELSE UnresolvedNames(Tail(url))

NoReq == [Method |-> "", URL |-> << >>]

\* buildHTTPRequest: the URL part and the unresolved-variable check
buildHTTPRequest(p, vars, env) ==
  LET url == SubstPathParams(expand(p.URL, vars, env), p.PathParams, vars, env)
  IN IF UnresolvedNames(url) # << >>
     THEN [req |-> NoReq,
           err |-> <<"unresolved variable(s) in url:">> \o UnresolvedNames(url)]
     ELSE [req |-> [Method |-> p.Verb, URL |-> url], err |-> NoErr]

\* ---------------------------------------------------------------- tags
\* passesTagFilter with the exclude loop lost.
passesTagFilterNoExclude(tags, include, exclude) ==
  ~(include # {} /\ tags \cap include = {})

\* passesTagFilter where a match in the include list settles the answer.
passesTagFilterIncludeWins(tags, include, exclude) ==
  IF include # {} THEN tags \cap include # {} ELSE tags \cap exclude = {}

passesTagFilter(tags, include, exclude) ==
  IF include # {} /\ tags \cap include = {}
  THEN FALSE
  ELSE tags \cap exclude = {}

\* ---------------------------------------------------------------- inputs
\* Scripts are sequences of the bru calls the engine reacts to.
SetVar(k, v) == [op |-> "setVar", key |-> k, val |-> v]
\* The other calls: "unset" is bru.runner.iterationData.unset(k), "iterSet" is
\* bru.runner.iterationData.set(k, v), "setUrl" is req.url = v and "setHeader"
\* is req.setHeader(k, v) in a pre-request script.
ScriptOp(op, k, v) == [op |-> op, key |-> k, val |-> v]

\* The part of a script that runs in a VM that has no req object: the first
\* statement that touches req throws and ends the script.
RECURSIVE ScriptUntilReq(_)
ScriptUntilReq(ops) ==
  IF ops = << >> \/ Head(ops).op \in {"setUrl", "setHeader"} THEN << >>
  ELSE <<Head(ops)>> \o ScriptUntilReq(Tail(ops))

\* The request URL a pre-request script leaves: its last req.url assignment.
RECURSIVE ScriptURL(_, _)
ScriptURL(ops, url) ==
  IF ops = << >> THEN url
  ELSE ScriptURL(Tail(ops), IF Head(ops).op = "setUrl" THEN Head(ops).val ELSE url)

\* The parsed .bru files a collection may hold (parser.ParsedFile); the state
\* refers to a file by its index in this catalog.
Catalog ==
  << [FilePath |-> "a.bru", Name |-> "A", Seq |-> 2, Tags |-> {"smoke"}, Skip |-> FALSE,
     Verb |-> "GET", URL |-> <<Lit("http://h/a")>>, PathParams |-> EmptyMap,
     VarsPre |-> EmptyMap, VarsPost |-> [tok |-> "t1"], Repeat |-> 0, DelayMS |-> 0,
     PreRequest |-> << >>, PostResponse |-> << >>,
     Tests |-> <<"ta">>, Asserts |-> << >>],
    [FilePath |-> "sub/b.bru", Name |-> "", Seq |-> 2, Tags |-> {"slow"}, Skip |-> FALSE,
     Verb |-> "POST", URL |-> <<Var("baseUrl"), Lit("/b/"), Param("id")>>,
     PathParams |-> [id |-> Var("tok")],
     VarsPre |-> EmptyMap, VarsPost |-> EmptyMap, Repeat |-> 2, DelayMS |-> 0,
     PreRequest |-> << >>, PostResponse |-> <<ScriptOp("unset", "tok", "")>>,
     Tests |-> << >>, Asserts |-> << >>],
    [FilePath |-> "c.bru", Name |-> "", Seq |-> 1, Tags |-> {}, Skip |-> FALSE,
     Verb |-> "GET", URL |-> <<Var("baseUrl"), Lit("/c")>>, PathParams |-> EmptyMap,
     VarsPre |-> EmptyMap, VarsPost |-> EmptyMap, Repeat |-> 2, DelayMS |-> 0,
     PreRequest |-> <<SetVar("tok", "t2"), ScriptOp("iterSet", "row", "r1"),
                      ScriptOp("setUrl", "", <<Lit("http://h/c2")>>)>>,
     PostResponse |-> << >>,
     Tests |-> << >>, Asserts |-> <<"res.status">>],
    [FilePath |-> "d.bru", Name |-> "D", Seq |-> 3, Tags |-> {"smoke", "slow"}, Skip |-> TRUE,
     Verb |-> "GET", URL |-> <<Lit("http://h/d")>>, PathParams |-> EmptyMap,
     VarsPre |-> EmptyMap, VarsPost |-> EmptyMap, Repeat |-> 0, DelayMS |-> 0,
     PreRequest |-> << >>, PostResponse |-> << >>,
     Tests |-> <<"td">>, Asserts |-> << >>],
    [FilePath |-> "e.bru", Name |-> "E", Seq |-> 1, Tags |-> {}, Skip |-> FALSE,
     Verb |-> "GET", URL |-> <<Lit("http://h/e")>>, PathParams |-> EmptyMap,
     VarsPre |-> EmptyMap, VarsPost |-> EmptyMap, Repeat |-> 0, DelayMS |-> 0,
     PreRequest |-> <<ScriptOp("setHeader", "x-id", "1")>>, PostResponse |-> << >>,
     Tests |-> <<"te">>, Asserts |-> << >>],
    [FilePath |-> "f.bru", Name |-> "", Seq |-> 1, Tags |-> {}, Skip |-> FALSE,
     Verb |-> "GET", URL |-> <<Lit("http://h/f")>>, PathParams |-> EmptyMap,
     VarsPre |-> EmptyMap, VarsPost |-> EmptyMap, Repeat |-> 0, DelayMS |-> 0,
     PreRequest |-> << >>, PostResponse |-> << >>,
     Tests |-> << >>, Asserts |-> <<"res.status">>],
    [FilePath |-> "g.bru", Name |-> "G", Seq |-> 2, Tags |-> {}, Skip |-> FALSE,
     Verb |-> "GET", URL |-> <<Lit("http://h/g")>>, PathParams |-> EmptyMap,
     VarsPre |-> EmptyMap, VarsPost |-> EmptyMap, Repeat |-> 0, DelayMS |-> 1,
     PreRequest |-> << >>, PostResponse |-> << >>,
     Tests |-> << >>, Asserts |-> <<"res.status">>] >>

\* sort.Slice's less function: by meta.seq, ties broken by file path.
\* File paths are the catalog's, compared by their rank in PathOrder.
PathOrder == <<"a.bru", "c.bru", "d.bru", "e.bru", "f.bru", "g.bru", "sub/b.bru">>
PathRank(path) == CHOOSE i \in 1..Len(PathOrder) : PathOrder[i] = path

\* The less function comparing file paths only.
FileLessPathOnly(f, g) ==
  PathRank(Catalog[f].FilePath) < PathRank(Catalog[g].FilePath)

FileLess(f, g) ==
  IF Catalog[f].Seq = Catalog[g].Seq
  THEN PathRank(Catalog[f].FilePath) < PathRank(Catalog[g].FilePath)
  ELSE Catalog[f].Seq < Catalog[g].Seq

\* The discovered files in sorted order.
RECURSIVE SortFiles(_)
SortFiles(S) ==
  IF S = {} THEN << >>
  ELSE LET first == CHOOSE f \in S : \A g \in S \ {f} : FileLess(f, g)
       IN <<first>> \o SortFiles(S \ {first})

\* The RunOptions a caller may pass to a runner built with configuration r:
\* hooks are used all together or not at all; FilterChoices are the
\* case-selection options a caller may combine.
RunOptionsSet(r) ==
  LET FilterChoices ==
        { [TestsOnly |-> FALSE, Tags |-> {}, ExcludeTags |-> {}],
          [TestsOnly |-> TRUE, Tags |-> {}, ExcludeTags |-> {}],
          [TestsOnly |-> FALSE, Tags |-> {}, ExcludeTags |-> {"slow"}],
          [TestsOnly |-> FALSE, Tags |-> {"smoke"}, ExcludeTags |-> {"slow"}] }
  IN { [Parallel |-> par, Bail |-> bail, TestsOnly |-> f.TestsOnly,
        IterationCount |-> n, Tags |-> f.Tags, ExcludeTags |-> f.ExcludeTags,
        Vars |-> v, PreHookCmd |-> cmd, PostHookCmd |-> cmd,
        CSVFilePath |-> "", JSONFilePath |-> "", Delay |-> 0] :
          par \in BOOLEAN, bail \in BOOLEAN, f \in FilterChoices, n \in {0, MaxIter},
          v \in {EmptyMap, [baseUrl |-> "http://h"]}, cmd \in {r.preHook} }

\* ---------------------------------------------------------------- datasets
\* A value of type any held in iteration data: a string or a JSON number,
\* kept with the text fmt.Sprint gives it.
Str(s) == [t |-> "string", s |-> s]
Num(s) == [t |-> "number", s |-> s]

Sprint(v) == v.s

\* strings.TrimSpace on the texts the dataset files hold.
TrimSpace(s) ==
  IF s = " k " THEN "k" ELSE IF s = " a " THEN "a"
  ELSE IF s = " X-Foo " THEN "X-Foo" ELSE s

\* The dataset files on disk. A CSV file is the records encoding/csv reads
\* from it (the first is the header); a JSON file is the value it decodes to:
\* an array of items, each an object or not, or something that is no array.
\* A path that is not listed cannot be opened.
CSVFiles ==
  [ p \in {"empty.csv", "head.csv", "two.csv", "pad.csv", "ragged.csv"} |->
      CASE p = "empty.csv" -> << >>
        [] p = "head.csv" -> << <<"k", "n">> >>
        [] p = "two.csv" -> << <<"k", "n">>, <<"a", "1">>, <<"b", "2">> >>
        [] p = "pad.csv" -> << <<" k ">>, <<" a ">>, <<"b">> >>
        [] p = "ragged.csv" -> << <<"k", "n">>, <<"a", "1">>, <<"b">> >> ]

JSONFiles ==
  [ p \in {"two.json", "empty.json", "object.json", "mixed.json", "broken.json"} |->
      CASE p = "two.json" ->
             [valid |-> TRUE, array |-> TRUE,
              items |-> << [object |-> TRUE, fields |-> [k |-> Str("a"), n |-> Num("1")]],
                           [object |-> TRUE, fields |-> [k |-> Str("b"), n |-> Num("2")]] >>]
        [] p = "empty.json" -> [valid |-> TRUE, array |-> TRUE, items |-> << >>]
        [] p = "object.json" -> [valid |-> TRUE, array |-> FALSE, items |-> << >>]
        [] p = "mixed.json" ->
             [valid |-> TRUE, array |-> TRUE,
              items |-> << [object |-> TRUE, fields |-> [k |-> Str("a")]],
                           [object |-> FALSE, fields |-> EmptyMap] >>]
        [] p = "broken.json" -> [valid |-> FALSE, array |-> FALSE, items |-> << >>] ]

\* The result of the iteration planner: a plan, or an error and no plan.
PlanOf(its) == [its |-> its, err |-> NoErr]
PlanError(e) == [its |-> << >>, err |-> e]

\* One data row under the trimmed headers: every header gets the trimmed
\* field at its position, or "" when the row is shorter.
CSVRow(headers, row) ==
  LET val(i) == IF i <= Len(row) THEN TrimSpace(row[i]) ELSE ""
      hs == {TrimSpace(headers[i]) : i \in 1..Len(headers)}
      at(h) == val(CHOOSE i \in 1..Len(headers) :
                     /\ TrimSpace(headers[i]) = h
                     /\ \A j \in 1..Len(headers) : TrimSpace(headers[j]) = h => j <= i)
  IN [vars |-> [h \in hs |-> at(h)], data |-> [h \in hs |-> Str(at(h))]]

\* readCSVIterations: an unreadable or empty file, a record with the wrong
\* number of fields (csv.ErrFieldCount) and a file without data rows are
\* errors; else one iteration per data row, in file order.
readCSVIterations(path) ==
  IF path \notin DOMAIN CSVFiles THEN PlanError(<<"csv-file-path:", "open">>)
  ELSE LET recs == CSVFiles[path]
       IN IF recs = << >> THEN PlanError(<<"csv-file-path", path, "is empty">>)
          ELSE IF \E i \in 2..Len(recs) : Len(recs[i]) # Len(recs[1])
               THEN PlanError(<<"csv-file-path:", "wrong number of fields">>)
          ELSE IF Len(recs) = 1
               THEN PlanError(<<"csv-file-path", path, "contains no data rows">>)
          ELSE PlanOf([i \in 1..(Len(recs) - 1) |-> CSVRow(recs[1], recs[i + 1])])

\* readJSONIterations: the file must decode to an array of objects with at
\* least one item; vars holds fmt.Sprint of every value, data the value.
readJSONIterations(path) ==
  IF path \notin DOMAIN JSONFiles THEN PlanError(<<"json-file-path:", "open">>)
  ELSE LET f == JSONFiles[path]
       IN IF ~f.valid THEN PlanError(<<"json-file-path:", "decode">>)
          ELSE IF ~f.array THEN PlanError(<<"json-file-path", path, "must be a JSON array">>)
          ELSE IF \E i \in 1..Len(f.items) : ~f.items[i].object
               THEN PlanError(<<"json-file-path", path, "must contain objects">>)
          ELSE IF f.items = << >>
               THEN PlanError(<<"json-file-path", path, "contains no data rows">>)
          ELSE PlanOf([i \in 1..Len(f.items) |->
                         [vars |-> [k \in DOMAIN f.items[i].fields |-> Sprint(f.items[i].fields[k])],
                          data |-> f.items[i].fields]])

\* The planner with the count taken as it is: a count of 0 or less plans
\* nothing.
buildIterationsCountAsIs(o) ==
  IF o.CSVFilePath # "" /\ o.JSONFilePath # ""
  THEN PlanError(<<"csv-file-path and json-file-path cannot be used together">>)
  ELSE IF o.CSVFilePath # "" THEN readCSVIterations(o.CSVFilePath)
  ELSE IF o.JSONFilePath # "" THEN readJSONIterations(o.JSONFilePath)
  ELSE PlanOf([i \in 1..o.IterationCount |-> [vars |-> EmptyMap, data |-> EmptyMap]])

\* buildIterations: both datasets is an error, one dataset is read, none
\* gives max(1, IterationCount) empty iterations.
buildIterations(o) ==
  IF o.CSVFilePath # "" /\ o.JSONFilePath # ""
  THEN PlanError(<<"csv-file-path and json-file-path cannot be used together">>)
  ELSE IF o.CSVFilePath # "" THEN readCSVIterations(o.CSVFilePath)
  ELSE IF o.JSONFilePath # "" THEN readJSONIterations(o.JSONFilePath)
  ELSE LET count == IF o.IterationCount <= 0 THEN 1 ELSE o.IterationCount
       IN PlanOf([i \in 1..count |-> [vars |-> EmptyMap, data |-> EmptyMap]])

\* ---------------------------------------------------------------- results
ZeroResult ==
  [FilePath |-> "", RequestURL |-> << >>, Status |-> 0, Passed |-> FALSE,
   Skipped |-> FALSE, Failures |-> << >>, ErrorText |-> NoErr]

SkippedResult(p) ==
  [ZeroResult EXCEPT !.FilePath = p.FilePath, !.Passed = TRUE, !.Skipped = TRUE]

ZeroSummary ==
  [Cases |-> << >>, Total |-> 0, Passed |-> 0, Failed |-> 0, Skipped |-> 0]

\* Accumulate with the else-chain lost: a skipped result (whose Passed is
\* true) is counted as passed as well.
AccumulateSkippedAlsoPassed(sum, res) ==
  [sum EXCEPT !.Cases = Append(@, res),
              !.Skipped = IF res.Skipped THEN @ + 1 ELSE @,
              !.Passed = IF res.Passed THEN @ + 1 ELSE @,
              !.Failed = IF ~res.Skipped /\ ~res.Passed THEN @ + 1 ELSE @]

\* summary.Cases = append(...); one of the three counters ++
Accumulate(sum, res) ==
  [sum EXCEPT !.Cases = Append(@, res),
              !.Skipped = IF res.Skipped THEN @ + 1 ELSE @,
              !.Passed = IF ~res.Skipped /\ res.Passed THEN @ + 1 ELSE @,
              !.Failed = IF ~res.Skipped /\ ~res.Passed THEN @ + 1 ELSE @]

\* ---------------------------------------------------------------- state
VARIABLES
  runner,        \* the fields New fixed: which in-process hooks are set
  pc,            \* RunFolder's position: idle, iter, seq, seqWait, collect, done
  opts,          \* the RunOptions of the call
  files,         \* the discovered files, sorted
  runnable,      \* the files that pass the tag filter, in sorted order
  iterations,    \* the iteration plan
  envVars,       \* env-file vars overlaid with opts.Vars
  iterIdx,       \* 0-based index of the current iteration
  iterVars,      \* the current iteration's variable map
  caseIdx,       \* sequential mode: position in runnable (1-based)
  caseCount,     \* cases accumulated so far
  summary,       \* the RunSummary under construction / returned
  retErr,        \* the error RunFolder returned (NoErr: nil)
  task,          \* one executeParsed activation per runnable case
  outCh,         \* parallel mode: the buffered result channel
  recv,          \* parallel mode: results received in this iteration
  bailTriggered, \* parallel mode: a case of this iteration failed under bail
  iterErr,       \* parallel mode: first run-level error of this iteration
  ctxIterDone,   \* parallel mode: the iteration context was cancelled
  events,        \* history: which phase ran for which (file, iteration, repetition)
  faults,        \* environment failures injected so far (at most MaxFaults)
  call,          \* a function called on its own: its name and arguments
  ret,           \* what that call returned (NoRet: it has not returned)
  last,          \* RunFile: the result of the latest iteration
  ctxCancelled   \* the caller's context has been cancelled

\* The state outside RunFolder's own.
sideVars == <<call, ret, last, ctxCancelled>>

vars == <<runner, pc, opts, files, runnable, iterations, envVars, iterIdx, iterVars,
          caseIdx, caseCount, summary, retErr, task, outCh, recv, bailTriggered,
          iterErr, ctxIterDone, events, faults, call, ret, last, ctxCancelled>>

\* The state of a run.
runVars == <<runner, pc, opts, files, runnable, iterations, envVars, iterIdx, iterVars,
             caseIdx, caseCount, summary, retErr, task, outCh, recv, bailTriggered,
             iterErr, ctxIterDone, events, faults>>

NoRet == [done |-> FALSE]

\* The OS environment the expander falls back to.
osEnv == EmptyMap

IdleTask ==
  [pc |-> "idle", i |-> 0, exp |-> EmptyMap, optsVars |-> EmptyMap, data |-> EmptyMap,
   req |-> NoReq, status |-> 0, result |-> ZeroResult, err |-> NoErr,
   reqCtx |-> "none"]

NoOpts ==
  [Parallel |-> FALSE, Bail |-> FALSE, TestsOnly |-> FALSE, IterationCount |-> 0,
   Tags |-> {}, ExcludeTags |-> {}, Vars |-> EmptyMap,
   PreHookCmd |-> FALSE, PostHookCmd |-> FALSE,
   CSVFilePath |-> "", JSONFilePath |-> "", Delay |-> 0]

\* No run has started.
IdleRun ==
  /\ pc = "idle"
  /\ opts = NoOpts
  /\ files = << >>
  /\ runnable = << >>
  /\ iterations = << >>
  /\ envVars = EmptyMap
  /\ iterIdx = 0
  /\ iterVars = EmptyMap
  /\ caseIdx = 0
  /\ caseCount = 0
  /\ summary = ZeroSummary
  /\ retErr = NoErr
  /\ task = << >>
  /\ outCh = << >>
  /\ recv = 0
  /\ bailTriggered = FALSE
  /\ iterErr = NoErr
  /\ ctxIterDone = FALSE
  /\ events = {}
  /\ faults = 0

\* New: the runner's hooks are fixed at construction; nothing runs yet.
Init ==
  /\ runner \in {[preHook |-> FALSE, postHook |-> FALSE], [preHook |-> TRUE, postHook |-> TRUE]}
  /\ IdleRun
  /\ call = [fn |-> "none"]
  /\ ret = NoRet
  /\ last = ZeroResult
  /\ ctxCancelled = FALSE

Ev(kind, t, tk) == <<kind, runnable[t], iterIdx, tk.i>>

\* ---------------------------------------------------------------- RunFolder
\* RunFolder without the upfront tag filter: every discovered file is handed
\* to executeParsed, whose own tag check reports it skipped.
RunFolderNoUpfrontFilter(o, S) ==
  /\ pc = "idle"
  /\ LET sorted == SortFiles(S)
         rn == sorted
         bi == buildIterations(o)
         its == IF Len(bi.its) = 0 THEN <<[vars |-> EmptyMap, data |-> EmptyMap]>> ELSE bi.its
     IN IF bi.err # NoErr
        THEN /\ retErr' = bi.err
             /\ pc' = "done"
             /\ files' = sorted
             /\ UNCHANGED <<runnable, iterations, summary, task>>
        ELSE /\ files' = sorted
             /\ runnable' = rn
             /\ iterations' = its
             /\ summary' = [ZeroSummary EXCEPT !.Total = Len(rn) * Len(its)]
             /\ task' = [t \in 1..Len(rn) |-> IdleTask]
             /\ pc' = "iter"
             /\ retErr' = retErr
  /\ opts' = o
  /\ envVars' = MapsCopy(EmptyMap, o.Vars)
  /\ caseCount' = 0
  /\ iterIdx' = 0
  /\ UNCHANGED <<sideVars, runner, iterVars, caseIdx, outCh, recv, bailTriggered,
                 iterErr, ctxIterDone, events, faults>>

\* RunFolder up to the iteration loop: discover and sort, merge vars, plan the
\* iterations, filter by tag, fix summary.Total.
RunFolder(o, S) ==
  /\ pc = "idle"
  /\ LET sorted == SortFiles(S)
         rn == SelectSeq(sorted, LAMBDA f : passesTagFilter(Catalog[f].Tags, o.Tags, o.ExcludeTags))
         bi == buildIterations(o)
         its == IF Len(bi.its) = 0 THEN <<[vars |-> EmptyMap, data |-> EmptyMap]>> ELSE bi.its
     IN IF bi.err # NoErr
        THEN /\ retErr' = bi.err
             /\ pc' = "done"
             /\ files' = sorted
             /\ UNCHANGED <<runnable, iterations, summary, task>>
        ELSE /\ files' = sorted
             /\ runnable' = rn
             /\ iterations' = its
             /\ summary' = [ZeroSummary EXCEPT !.Total = Len(rn) * Len(its)]
             /\ task' = [t \in 1..Len(rn) |-> IdleTask]
             /\ pc' = "iter"
             /\ retErr' = retErr
  /\ opts' = o
  /\ envVars' = MapsCopy(EmptyMap, o.Vars)
  /\ caseCount' = 0
  /\ iterIdx' = 0
  /\ UNCHANGED <<sideVars, runner, iterVars, caseIdx, outCh, recv, bailTriggered,
                 iterErr, ctxIterDone, events, faults>>

\* The task state executeParsed starts from (its opts.Vars is v).
EnteredTask(v) == [IdleTask EXCEPT !.pc = "enter", !.optsVars = v]

\* Top of the iteration loop: fresh iterVars, then either launch every case
\* task (parallel) or start walking the cases (sequential).
IterBegin ==
  /\ pc = "iter"
  /\ iterIdx < Len(iterations)
  /\ LET iv == MapsCopy(cloneStringMap(envVars), iterations[iterIdx + 1].vars)
     IN /\ iterVars' = iv
        /\ IF opts.Parallel
           THEN /\ task' = [t \in 1..Len(runnable) |-> EnteredTask(cloneStringMap(iv))]
                /\ pc' = "collect"
                /\ caseIdx' = caseIdx
                /\ iterIdx' = iterIdx
           ELSE /\ task' = task
                /\ IF Len(runnable) = 0
                   THEN /\ pc' = "iter"
                        /\ iterIdx' = iterIdx + 1
                        /\ caseIdx' = caseIdx
                   ELSE /\ pc' = "seq"
                        /\ iterIdx' = iterIdx
                        /\ caseIdx' = 1
  /\ outCh' = << >>
  /\ recv' = 0
  /\ bailTriggered' = FALSE
  /\ iterErr' = NoErr
  /\ ctxIterDone' = FALSE
  /\ UNCHANGED <<sideVars, runner, opts, files, runnable, iterations, envVars, caseCount,
                 summary, retErr, events, faults>>

\* All iterations done: return summary, nil.
ReturnSummary ==
  /\ pc = "iter"
  /\ iterIdx >= Len(iterations)
  /\ pc' = "done"
  /\ UNCHANGED <<sideVars, runner, opts, files, runnable, iterations, envVars, iterIdx, iterVars,
                 caseIdx, caseCount, summary, retErr, task, outCh, recv, bailTriggered,
                 iterErr, ctxIterDone, events, faults>>

\* The delay between cases: opts.Delay plus the next case's meta.delayMs.
InterCaseDelay(f) == opts.Delay + Catalog[f].DelayMS

\* A delay slept before every case, the first of the run included.
InterCaseDelayDueAlways == InterCaseDelay(runnable[caseIdx]) > 0

\* Whether the sequential loop sleeps before the next case: the delay is
\* positive and a case has been accumulated before.
InterCaseDelayDue == InterCaseDelay(runnable[caseIdx]) > 0 /\ caseCount > 0

\* Sequential mode: time.Sleep(delay) before the next case.
SeqDelay ==
  /\ pc = "seq"
  /\ InterCaseDelayDue
  /\ pc' = "sleep"
  /\ events' = events \cup {<<"interDelay", runnable[caseIdx], iterIdx, 0>>}
  /\ UNCHANGED <<sideVars, runner, opts, files, runnable, iterations, envVars, iterIdx, iterVars,
                 caseIdx, caseCount, summary, retErr, task, outCh, recv, bailTriggered,
                 iterErr, ctxIterDone, faults>>

\* Sequential mode: call executeParsed for the next case, once the delay
\* that is due has been slept; caseOpts.Vars is iterVars itself (the same
\* map), which the task reads through OptsVars.
SeqCall ==
  /\ (pc = "seq" /\ ~InterCaseDelayDue) \/ pc = "sleep"
  /\ task' = [task EXCEPT ![caseIdx] = EnteredTask(EmptyMap)]
  /\ pc' = "seqWait"
  /\ UNCHANGED <<sideVars, runner, opts, files, runnable, iterations, envVars, iterIdx, iterVars,
                 caseIdx, caseCount, summary, retErr, outCh, recv, bailTriggered,
                 iterErr, ctxIterDone, events, faults>>

\* Bail that also stops on a skipped case.
BailNowAlsoOnSkipped(res) == opts.Bail /\ (~res.Passed \/ res.Skipped)

\* Sequential mode: stop after a case that is neither passed nor skipped.
BailNow(res) == opts.Bail /\ ~res.Passed /\ ~res.Skipped

\* Sequential mode: executeParsed returned.
SeqReturn ==
  /\ pc = "seqWait"
  /\ task[caseIdx].pc = "ret"
  /\ LET res == task[caseIdx].result
         err == task[caseIdx].err
     IN IF err # NoErr
        THEN /\ summary' = ZeroSummary
             /\ retErr' = err
             /\ pc' = "done"
             /\ UNCHANGED <<caseCount, caseIdx, iterIdx>>
        ELSE /\ summary' = Accumulate(summary, res)
             /\ caseCount' = caseCount + 1
             /\ retErr' = retErr
             /\ IF BailNow(res)
                THEN pc' = "done" /\ UNCHANGED <<caseIdx, iterIdx>>
                ELSE IF caseIdx = Len(runnable)
                     THEN pc' = "iter" /\ iterIdx' = iterIdx + 1 /\ caseIdx' = caseIdx
                     ELSE pc' = "seq" /\ caseIdx' = caseIdx + 1 /\ iterIdx' = iterIdx
  /\ task' = [task EXCEPT ![caseIdx] = IdleTask]
  /\ UNCHANGED <<sideVars, runner, opts, files, runnable, iterations, envVars, iterVars, outCh,
                 recv, bailTriggered, iterErr, ctxIterDone, events, faults>>

\* Parallel accumulation that forgets bail.
NextBailTriggeredNever(bt, res) == bt

\* Parallel mode: a failed case of the iteration arms bail.
NextBailTriggered(bt, res) ==
  IF ~res.Skipped /\ ~res.Passed THEN (bt \/ opts.Bail) ELSE bt

\* A collector that passes over a failed case result as it does over the
\* results that follow a run-level error.
CollectPassesOverFailed ==
  /\ pc = "collect"
  /\ recv < Len(runnable)
  /\ outCh # << >>
  /\ LET out == Head(outCh)
         first == out.err # NoErr /\ iterErr = NoErr
         ie == IF first THEN out.err ELSE iterErr
     IN /\ iterErr' = ie
        /\ ctxIterDone' = (ctxIterDone \/ first)
        /\ IF ie # NoErr \/ (~out.res.Passed /\ ~out.res.Skipped)
           THEN UNCHANGED <<summary, bailTriggered, caseCount>>
           ELSE /\ summary' = Accumulate(summary, out.res)
                /\ bailTriggered' = NextBailTriggered(bailTriggered, out.res)
                /\ caseCount' = caseCount + 1
  /\ outCh' = Tail(outCh)
  /\ recv' = recv + 1
  /\ UNCHANGED <<sideVars, runner, pc, opts, files, runnable, iterations, envVars, iterIdx,
                 iterVars, caseIdx, retErr, task, events, faults>>

\* A collector that goes on accumulating the results it receives after a
\* run-level error.
CollectAccumulatesAfterError ==
  /\ pc = "collect"
  /\ recv < Len(runnable)
  /\ outCh # << >>
  /\ LET out == Head(outCh)
         first == out.err # NoErr /\ iterErr = NoErr
         ie == IF first THEN out.err ELSE iterErr
     IN /\ iterErr' = ie
        /\ ctxIterDone' = (ctxIterDone \/ first)
        /\ IF out.err # NoErr
           THEN UNCHANGED <<summary, bailTriggered, caseCount>>
           ELSE /\ summary' = Accumulate(summary, out.res)
                /\ bailTriggered' = NextBailTriggered(bailTriggered, out.res)
                /\ caseCount' = caseCount + 1
  /\ outCh' = Tail(outCh)
  /\ recv' = recv + 1
  /\ UNCHANGED <<sideVars, runner, pc, opts, files, runnable, iterations, envVars, iterIdx,
                 iterVars, caseIdx, retErr, task, events, faults>>

\* Parallel mode: one pass of the collector loop, out := <-outCh.
Collect ==
  /\ pc = "collect"
  /\ recv < Len(runnable)
  /\ outCh # << >>
  /\ LET out == Head(outCh)
         first == out.err # NoErr /\ iterErr = NoErr
         ie == IF first THEN out.err ELSE iterErr
     IN /\ iterErr' = ie
        /\ ctxIterDone' = (ctxIterDone \/ first)
        /\ IF ie # NoErr
           THEN UNCHANGED <<summary, bailTriggered, caseCount>>
           ELSE /\ summary' = Accumulate(summary, out.res)
                /\ bailTriggered' = NextBailTriggered(bailTriggered, out.res)
                /\ caseCount' = caseCount + 1
  /\ outCh' = Tail(outCh)
  /\ recv' = recv + 1
  /\ UNCHANGED <<sideVars, runner, pc, opts, files, runnable, iterations, envVars, iterIdx,
                 iterVars, caseIdx, retErr, task, events, faults>>

\* A collector loop that ends at the first result received.
CollectDoneEarly ==
  /\ pc = "collect"
  /\ recv >= 1
  /\ IF iterErr # NoErr
     THEN /\ summary' = ZeroSummary
          /\ retErr' = iterErr
          /\ pc' = "done"
          /\ iterIdx' = iterIdx
     ELSE /\ UNCHANGED <<summary, retErr>>
          /\ IF bailTriggered
             THEN pc' = "done" /\ iterIdx' = iterIdx
             ELSE pc' = "iter" /\ iterIdx' = iterIdx + 1
  /\ ctxIterDone' = TRUE
  /\ task' = [t \in 1..Len(runnable) |-> IdleTask]
  /\ UNCHANGED <<sideVars, runner, opts, files, runnable, iterations, envVars, iterVars, caseIdx,
                 caseCount, outCh, recv, bailTriggered, iterErr, events, faults>>

\* Parallel mode: every result of the iteration was received.
CollectDone ==
  /\ pc = "collect"
  /\ recv = Len(runnable)
  /\ IF iterErr # NoErr
     THEN /\ summary' = ZeroSummary
          /\ retErr' = iterErr
          /\ pc' = "done"
          /\ iterIdx' = iterIdx
     ELSE /\ UNCHANGED <<summary, retErr>>
          /\ IF bailTriggered
             THEN pc' = "done" /\ iterIdx' = iterIdx
             ELSE pc' = "iter" /\ iterIdx' = iterIdx + 1
  /\ ctxIterDone' = TRUE
  /\ task' = [t \in 1..Len(runnable) |-> IdleTask]
  /\ UNCHANGED <<sideVars, runner, opts, files, runnable, iterations, envVars, iterVars, caseIdx,
                 caseCount, outCh, recv, bailTriggered, iterErr, events, faults>>

\* ---------------------------------------------------------------- executeParsed
\* opts.Vars as the case executor sees it: the task's own clone in parallel
\* mode, the iteration's map itself in sequential mode.
OptsVars(t) == IF opts.Parallel THEN task[t].optsVars ELSE iterVars

Returned(res, err) == [IdleTask EXCEPT !.pc = "ret", !.result = res, !.err = err]

Repeat(p) == IF p.Repeat <= 0 THEN 1 ELSE p.Repeat

\* Where a repetition starts: at the meta.delayMs sleep if the file has one,
\* else at buildHTTPRequest.
RepStart(p) == IF p.DelayMS > 0 THEN "delay" ELSE "build"

\* A repeat loop that goes on after a failed result.
EndRepIgnoresFailure(tk, p) ==
  IF tk.i + 1 >= Repeat(p)
  THEN Returned(tk.result, NoErr)
  ELSE [tk EXCEPT !.i = @ + 1, !.pc = RepStart(p), !.req = NoReq, !.status = 0,
                  !.reqCtx = "none"]

\* End of one pass of the repeat loop: break on a failed result, else next pass.
EndRep(tk, p) ==
  IF ~tk.result.Passed \/ tk.i + 1 >= Repeat(p)
  THEN Returned(tk.result, NoErr)
  ELSE [tk EXCEPT !.i = @ + 1, !.pc = RepStart(p), !.req = NoReq, !.status = 0,
                  !.reqCtx = "none"]

\* The phase that follows each phase of a repetition; phases that are not
\* configured are passed over.
AfterPostHook(tk, p) ==
  IF opts.PostHookCmd THEN [tk EXCEPT !.pc = "extPost"] ELSE EndRep(tk, p)

AfterTests(tk, p) ==
  IF runner.postHook THEN [tk EXCEPT !.pc = "postHook"] ELSE AfterPostHook(tk, p)

AfterExtPre(tk, p) ==
  IF p.PreRequest # << >> THEN [tk EXCEPT !.pc = "preScript"] ELSE [tk EXCEPT !.pc = "dispatch"]

\* The order with the pre-request script ahead of the external pre hook,
\* which a case with a script never reaches.
AfterPreHookScriptFirst(tk, p) ==
  IF p.PreRequest # << >> THEN [tk EXCEPT !.pc = "preScript"]
  ELSE IF opts.PreHookCmd THEN [tk EXCEPT !.pc = "extPre"]
  ELSE [tk EXCEPT !.pc = "dispatch"]

AfterPreHook(tk, p) ==
  IF opts.PreHookCmd THEN [tk EXCEPT !.pc = "extPre"] ELSE AfterExtPre(tk, p)

AfterBuild(tk, p) ==
  IF runner.preHook THEN [tk EXCEPT !.pc = "preHook"] ELSE AfterPreHook(tk, p)

\* opts.IterationData as the case executor sees it: the task's own clone in
\* parallel mode, the iteration's map itself in sequential mode.
TaskData(t) == IF opts.Parallel THEN task[t].data ELSE iterations[iterIdx + 1].data

\* A task goroutine that ends without sending when executeParsed returned an
\* error.
TaskStepNoSendOnError(t, tk, evs, iv, d, fault) ==
  /\ IF opts.Parallel /\ tk.pc = "ret"
     THEN /\ outCh' = IF tk.err # NoErr THEN outCh
                     ELSE Append(outCh, [res |-> tk.result, err |-> tk.err])
          /\ task' = [task EXCEPT ![t] = [IdleTask EXCEPT !.pc = "sent"]]
     ELSE /\ outCh' = outCh
          /\ task' = [task EXCEPT ![t] = [tk EXCEPT !.data = IF opts.Parallel THEN d ELSE EmptyMap]]
  /\ events' = events \cup evs
                \cup (IF tk.pc = "ret" /\ tk.err # NoErr
                      THEN {Ev("runError", t, task[t])} ELSE {})
  /\ iterVars' = iv
  /\ iterations' = IF opts.Parallel THEN iterations
                   ELSE [iterations EXCEPT ![iterIdx + 1].data = d]
  /\ faults' = IF fault /\ faults < MaxFaults THEN faults + 1 ELSE faults
  /\ UNCHANGED <<sideVars, runner, pc, opts, files, runnable, envVars, iterIdx,
                 caseIdx, caseCount, summary, retErr, recv, bailTriggered,
                 iterErr, ctxIterDone>>

\* What a step of task t changes (d: the iteration data it leaves).
\* In parallel mode the goroutine sends what executeParsed returned on the
\* result channel (capacity len(runnable), so the send never blocks).
TaskStep(t, tk, evs, iv, d, fault) ==
  /\ IF opts.Parallel /\ tk.pc = "ret"
     THEN /\ outCh' = Append(outCh, [res |-> tk.result, err |-> tk.err])
          /\ task' = [task EXCEPT ![t] = [IdleTask EXCEPT !.pc = "sent"]]
     ELSE /\ outCh' = outCh
          /\ task' = [task EXCEPT ![t] = [tk EXCEPT !.data = IF opts.Parallel THEN d ELSE EmptyMap]]
  /\ events' = events \cup evs
                \cup (IF tk.pc = "ret" /\ tk.err # NoErr
                      THEN {Ev("runError", t, task[t])} ELSE {})
  /\ iterVars' = iv
  /\ iterations' = IF opts.Parallel THEN iterations
                   ELSE [iterations EXCEPT ![iterIdx + 1].data = d]
  /\ faults' = IF fault /\ faults < MaxFaults THEN faults + 1 ELSE faults
  /\ UNCHANGED <<sideVars, runner, pc, opts, files, runnable, envVars, iterIdx,
                 caseIdx, caseCount, summary, retErr, recv, bailTriggered,
                 iterErr, ctxIterDone>>

\* The outcomes the environment may give a hook or a request: success, or a
\* failure while the failure budget lasts; on a cancelled iteration context
\* a context-bound operation can only fail.
Outcomes == IF faults < MaxFaults THEN BOOLEAN ELSE {TRUE}

CtxOutcomes ==
  IF ctxCancelled \/ (opts.Parallel /\ ctxIterDone) THEN {FALSE} ELSE Outcomes

\* A script run: bru.setVar and bru.runner.iterationData.set write the
\* expander's map, bru.runner.iterationData.unset deletes from it.
RECURSIVE RunScript(_, _)
RunScript(ops, exp) ==
  IF ops = << >> THEN exp
  ELSE LET o == Head(ops)
       IN RunScript(Tail(ops),
                    IF o.op \in {"setVar", "iterSet"} THEN MapSet(exp, o.key, o.val)
                    ELSE IF o.op = "unset" THEN MapDelete(exp, o.key)
                    ELSE exp)

\* What a script run does to the iteration data map.
RECURSIVE RunScriptData(_, _)
RunScriptData(ops, data) ==
  IF ops = << >> THEN data
  ELSE LET o == Head(ops)
       IN RunScriptData(Tail(ops),
                        IF o.op = "iterSet" THEN MapSet(data, o.key, o.val)
                        ELSE IF o.op = "unset" THEN MapDelete(data, o.key)
                        ELSE data)

\* The iteration data after executeTests' scripts (none runs when the body
\* cannot be read).
TestsData(p, out, data) ==
  IF out.kind = "bodyErr" THEN data
  ELSE RunScriptData(ScriptUntilReq(p.PreRequest), RunScriptData(p.PostResponse, data))

\* The skip paths without the tests-only gate.
ShouldSkipIgnoresTestsOnly(p) ==
  \/ ~passesTagFilter(p.Tags, opts.Tags, opts.ExcludeTags)
  \/ p.Skip

\* The three skip paths at the entry of executeParsed: tag filter, meta.skip,
\* tests-only without tests or asserts.
ShouldSkip(p) ==
  \/ ~passesTagFilter(p.Tags, opts.Tags, opts.ExcludeTags)
  \/ p.Skip
  \/ (opts.TestsOnly /\ p.Tests = << >> /\ p.Asserts = << >>)

\* Entry of executeParsed: the three skip paths, else the expander is built
\* from opts.Vars and vars:pre-request and the repeat loop starts.
Enter(t) ==
  /\ task[t].pc = "enter"
  /\ LET p == Catalog[runnable[t]]
         tk == task[t]
     IN IF ShouldSkip(p)
        THEN TaskStep(t, Returned(SkippedResult(p), NoErr), {}, iterVars, TaskData(t), FALSE)
        ELSE TaskStep(t, [tk EXCEPT !.pc = RepStart(p), !.i = 0,
                                    !.exp = MapsCopy(cloneStringMap(OptsVars(t)), p.VarsPre)],
                      {}, iterVars,
                      IF opts.Parallel THEN cloneAnyMap(iterations[iterIdx + 1].data)
                      ELSE iterations[iterIdx + 1].data,
                      FALSE)

\* The meta.delayMs sleep at the top of a repetition: the timer fires, or
\* the context is done and executeParsed returns ctx.Err().
MetaDelay(t) ==
  /\ task[t].pc = "delay"
  /\ LET tk == task[t]
     IN TaskStep(t, IF ctxCancelled \/ (opts.Parallel /\ ctxIterDone)
                    THEN Returned(ZeroResult, <<"context canceled">>)
                    ELSE [tk EXCEPT !.pc = "build"],
                 {Ev("metaDelay", t, tk)}, iterVars, TaskData(t), FALSE)

\* A repetition that goes on with the request although building it failed.
BuildIgnoresError(t) ==
  /\ task[t].pc = "build"
  /\ LET p == Catalog[runnable[t]]
         tk == task[t]
         b == buildHTTPRequest(p, tk.exp, osEnv)
     IN TaskStep(t, AfterBuild([tk EXCEPT !.req = b.req, !.result.RequestURL = b.req.URL], p),
                 {Ev(IF b.err # NoErr THEN "buildFailed" ELSE "build", t, tk)}, iterVars, TaskData(t), FALSE)

\* buildHTTPRequest at the top of a repetition; an error is a run-level error.
Build(t) ==
  /\ task[t].pc = "build"
  /\ LET p == Catalog[runnable[t]]
         tk == task[t]
         b == buildHTTPRequest(p, tk.exp, osEnv)
     IN IF b.err # NoErr
        THEN TaskStep(t, Returned(ZeroResult, b.err), {Ev("buildFailed", t, tk)}, iterVars, TaskData(t), FALSE)
        ELSE TaskStep(t, AfterBuild([tk EXCEPT !.req = b.req, !.result.RequestURL = b.req.URL], p),
                      {Ev("build", t, tk)}, iterVars, TaskData(t), FALSE)

\* strings.ToUpper on the verbs in use; filepath.Base on the paths in use.
ToUpper(verb) ==
  IF verb = "get" THEN "GET" ELSE IF verb = "post" THEN "POST" ELSE verb

filepathBase(path) == IF path = "sub/b.bru" THEN "b.bru" ELSE path

\* A HookInfo taken from the parsed file alone, whatever the request is.
hookInfoFromFileOnly(p, req) ==
  [Name |-> IF p.Name = "" THEN filepathBase(p.FilePath) ELSE p.Name,
   FilePath |-> p.FilePath, Seq |-> p.Seq, Tags |-> p.Tags,
   Method |-> ToUpper(p.Verb), URL |-> p.URL]

\* hookInfoFromParsed: the file's metadata with the method and URL of the
\* request at hand (NoReq: a nil request, the file's own verb and URL).
hookInfoFromParsed(p, req) ==
  [Name |-> IF p.Name = "" THEN filepathBase(p.FilePath) ELSE p.Name,
   FilePath |-> p.FilePath, Seq |-> p.Seq, Tags |-> p.Tags,
   Method |-> IF req # NoReq /\ req.Method # "" THEN req.Method ELSE ToUpper(p.Verb),
   URL |-> IF req # NoReq THEN req.URL ELSE p.URL]

\* History of a hook call: what ran, the HookInfo an in-process hook was
\* handed, and whether the hook failed.
HookEv(kind, t, tk, ok) ==
  {Ev(kind, t, tk)}
  \cup (IF kind \in {"preHook", "postHook"}
        THEN {<<kind \o "Info", runnable[t], iterIdx, tk.i,
                hookInfoFromParsed(Catalog[runnable[t]], tk.req)>>}
        ELSE {})
  \cup (IF ok THEN {} ELSE {Ev("hookFailed", t, tk)})

\* An in-process pre hook whose error is dropped.
PreHookErrorDropped(t) ==
  /\ task[t].pc = "preHook"
  /\ \E ok \in Outcomes :
       LET p == Catalog[runnable[t]]
           tk == task[t]
       IN TaskStep(t, AfterPreHook(tk, p),
                   HookEv("preHook", t, tk, ok), iterVars, TaskData(t), ~ok)

\* In-process pre hook; its error aborts the run.
PreHook(t) ==
  /\ task[t].pc = "preHook"
  /\ \E ok \in Outcomes :
       LET p == Catalog[runnable[t]]
           tk == task[t]
       IN TaskStep(t, IF ok THEN AfterPreHook(tk, p) ELSE Returned(ZeroResult, <<"pre hook error">>),
                   HookEv("preHook", t, tk, ok), iterVars, TaskData(t), ~ok)

\* External pre hook command; a failed start or non-zero exit aborts the run.
\* exec.CommandContext on a cancelled context fails.
ExtPre(t) ==
  /\ task[t].pc = "extPre"
  /\ \E ok \in CtxOutcomes :
       LET p == Catalog[runnable[t]]
           tk == task[t]
       IN TaskStep(t, IF ok THEN AfterExtPre(tk, p) ELSE Returned(ZeroResult, <<"pre-hook failed:">>),
                   HookEv("extPre", t, tk, ok), iterVars, TaskData(t), ~ok)

\* runPreRequestScript
PreScript(t) ==
  /\ task[t].pc = "preScript"
  /\ LET p == Catalog[runnable[t]]
         tk == task[t]
     IN TaskStep(t, [tk EXCEPT !.pc = "dispatch", !.exp = RunScript(p.PreRequest, tk.exp),
                                !.req.URL = ScriptURL(p.PreRequest, tk.req.URL)],
                 {Ev("preScript", t, tk)}, iterVars,
                 RunScriptData(p.PreRequest, TaskData(t)), FALSE)

\* The transport-failure return turned into a run-level error result: no
\* errorText, nothing that marks the case.
TransportFailureUnmarked(p, tk) ==
  [ZeroResult EXCEPT !.FilePath = p.FilePath, !.RequestURL = tk.req.URL,
                     !.Passed = TRUE]

TransportFailure(p, tk) ==
  [ZeroResult EXCEPT !.FilePath = p.FilePath, !.RequestURL = tk.req.URL,
                     !.Passed = FALSE,
                     !.ErrorText = <<"http request failed:", "transport error">>]

StatusCodes == {200}

\* A dispatch whose transport error marks the result failed and then falls
\* through to the vars:post-response merge and the post hooks.
DispatchFailureFallsThrough(t) ==
  /\ task[t].pc = "dispatch"
  /\ \E ok \in CtxOutcomes :
     \E st \in StatusCodes :
       LET p == Catalog[runnable[t]]
           tk == task[t]
           failed == [tk EXCEPT !.result = TransportFailure(p, tk),
                                !.exp = MapsCopy(@, p.VarsPost)]
       IN TaskStep(t, IF ok THEN [tk EXCEPT !.pc = "tests", !.status = st, !.reqCtx = "cancelled"]
                            ELSE AfterTests(failed, p),
                   {Ev("dispatch", t, tk)} \cup (IF ok THEN {} ELSE {Ev("dispatchFailed", t, tk)}),
                   IF ok \/ opts.Parallel THEN iterVars ELSE MapsCopy(iterVars, p.VarsPost),
                   TaskData(t), ~ok)

\* The dispatch of a repetition: the per-request timeout context is made,
\* client.Do runs on it and the context is cancelled as soon as Do has
\* returned (reqCtx). A transport error is a case-level failure returned
\* with a nil error; a request on a cancelled context fails.
Dispatch(t) ==
  /\ task[t].pc = "dispatch"
  /\ \E ok \in CtxOutcomes :
     \E st \in StatusCodes :
       LET p == Catalog[runnable[t]]
           tk == task[t]
       IN TaskStep(t, IF ok THEN [tk EXCEPT !.pc = "tests", !.status = st, !.reqCtx = "cancelled"]
                            ELSE Returned(TransportFailure(p, tk), NoErr),
                   {Ev("dispatch", t, tk)} \cup (IF ok THEN {} ELSE {Ev("dispatchFailed", t, tk)}),
                   iterVars, TaskData(t), ~ok)

\* What the test phase can do: fail to read the body, throw while the tests
\* body runs, or run every assert and test, a set of which fails.
TestOutcomes(p) ==
  {[kind |-> "bodyErr", failed |-> {}]}
  \cup (IF p.Tests # << >> THEN {[kind |-> "throw", failed |-> {}]} ELSE {})
  \cup {[kind |-> "ran", failed |-> F] : F \in SUBSET (1..(Len(p.Asserts) + Len(p.Tests)))}

AllPass == [kind |-> "ran", failed |-> {}]

RECURSIVE FailuresOf(_, _, _)
FailuresOf(names, failed, k) ==
  IF k > Len(names) THEN << >>
  ELSE (IF k \in failed THEN <<names[k]>> ELSE << >>) \o FailuresOf(names, failed, k + 1)

\* executeTests with Passed never cleared by a failing assert or test.
executeTestsPassedSticky(p, out, exp) ==
  IF out.kind = "bodyErr"
  THEN [result |-> ZeroResult, err |-> <<"read body:">>, exp |-> exp]
  ELSE LET e == RunScript(ScriptUntilReq(p.PreRequest), RunScript(p.PostResponse, exp))
           fails == FailuresOf(p.Asserts \o p.Tests, out.failed, 1)
       IN IF out.kind = "throw"
          THEN [result |-> ZeroResult, err |-> <<"tests script:">>, exp |-> e]
          ELSE [result |-> [ZeroResult EXCEPT !.Passed = TRUE, !.Failures = fails],
                err |-> NoErr, exp |-> e]

\* executeTests: post-response script, the pre-request script again, the
\* tests body, then asserts and tests; Passed starts true and every failure
\* clears it.
executeTests(p, out, exp) ==
  IF out.kind = "bodyErr"
  THEN [result |-> ZeroResult, err |-> <<"read body:">>, exp |-> exp]
  ELSE LET e == RunScript(ScriptUntilReq(p.PreRequest), RunScript(p.PostResponse, exp))
           fails == FailuresOf(p.Asserts \o p.Tests, out.failed, 1)
       IN IF out.kind = "throw"
          THEN [result |-> ZeroResult, err |-> <<"tests script:">>, exp |-> e]
          ELSE [result |-> [ZeroResult EXCEPT !.Passed = (fails = << >>), !.Failures = fails],
                err |-> NoErr, exp |-> e]

\* The result executeParsed assembles from executeTests' return values.
AssembleResult(p, tk, et) ==
  LET r == IF et.err # NoErr
           THEN [et.result EXCEPT !.Passed = FALSE, !.ErrorText = et.err]
           ELSE et.result
  IN [r EXCEPT !.Status = tk.status, !.FilePath = p.FilePath, !.RequestURL = tk.req.URL]

\* The post-response phase with vars:post-response merged into the expander
\* only, not back into opts.Vars.
TestsNoMergeBack(t) ==
  /\ task[t].pc = "tests"
  /\ \E out \in (IF faults < MaxFaults THEN TestOutcomes(Catalog[runnable[t]]) ELSE {AllPass}) :
       LET p == Catalog[runnable[t]]
           tk == task[t]
           et == executeTests(p, out, tk.exp)
           tk2 == [tk EXCEPT !.result = AssembleResult(p, tk, et),
                             !.exp = MapsCopy(et.exp, p.VarsPost)]
       IN TaskStep(t, AfterTests(tk2, p),
                   {Ev("tests", t, tk)}
                     \cup (IF tk2.result.Passed THEN {} ELSE {Ev("testsFailed", t, tk)}),
                   iterVars, TestsData(p, out, TaskData(t)), out # AllPass)

\* The post-response phase of a run whose parallel tasks were handed the
\* iteration's map itself: the merge into opts.Vars writes that map.
TestsMergeIntoIterVars(t) ==
  /\ task[t].pc = "tests"
  /\ \E out \in (IF faults < MaxFaults THEN TestOutcomes(Catalog[runnable[t]]) ELSE {AllPass}) :
       LET p == Catalog[runnable[t]]
           tk == task[t]
           et == executeTests(p, out, tk.exp)
           tk2 == [tk EXCEPT !.result = AssembleResult(p, tk, et),
                             !.exp = MapsCopy(et.exp, p.VarsPost)]
       IN TaskStep(t, AfterTests(tk2, p),
                   {Ev("tests", t, tk)}
                     \cup (IF tk2.result.Passed THEN {} ELSE {Ev("testsFailed", t, tk)}),
                   MapsCopy(iterVars, p.VarsPost),
                   TestsData(p, out, TaskData(t)), out # AllPass)

\* Post-response phase: executeTests, result assembly, vars:post-response
\* merged into the expander and into opts.Vars.
Tests(t) ==
  /\ task[t].pc = "tests"
  /\ \E out \in (IF faults < MaxFaults THEN TestOutcomes(Catalog[runnable[t]]) ELSE {AllPass}) :
       LET p == Catalog[runnable[t]]
           tk == task[t]
           et == executeTests(p, out, tk.exp)
           tk2 == [tk EXCEPT !.result = AssembleResult(p, tk, et),
                             !.exp = MapsCopy(et.exp, p.VarsPost),
                             !.optsVars = IF opts.Parallel THEN MapsCopy(@, p.VarsPost) ELSE @]
       IN TaskStep(t, AfterTests(tk2, p),
                   {Ev("tests", t, tk)}
                     \cup (IF tk2.result.Passed THEN {} ELSE {Ev("testsFailed", t, tk)}),
                   IF opts.Parallel THEN iterVars ELSE MapsCopy(iterVars, p.VarsPost),
                   TestsData(p, out, TaskData(t)), out # AllPass)

\* In-process post hook; its error aborts the run.
PostHook(t) ==
  /\ task[t].pc = "postHook"
  /\ \E ok \in Outcomes :
       LET p == Catalog[runnable[t]]
           tk == task[t]
       IN TaskStep(t, IF ok THEN AfterPostHook(tk, p) ELSE Returned(ZeroResult, <<"post hook error">>),
                   HookEv("postHook", t, tk, ok), iterVars, TaskData(t), ~ok)

\* External post hook command.
ExtPost(t) ==
  /\ task[t].pc = "extPost"
  /\ \E ok \in CtxOutcomes :
       LET p == Catalog[runnable[t]]
           tk == task[t]
       IN TaskStep(t, IF ok THEN EndRep(tk, p) ELSE Returned(ZeroResult, <<"post-hook failed:">>),
                   HookEv("extPost", t, tk, ok), iterVars, TaskData(t), ~ok)

\* ---------------------------------------------------------------- specification
\* The collections a run may discover: files of the catalog's first four.
MainFiles == 1..4

FileSets == {S \in SUBSET MainFiles : Cardinality(S) <= MaxCases}

Next ==
  \/ \E o \in RunOptionsSet(runner), S \in FileSets : RunFolder(o, S)
  \/ IterBegin
  \/ ReturnSummary
  \/ SeqCall
  \/ SeqReturn
  \/ Collect
  \/ CollectDone
  \/ \E t \in DOMAIN task : Enter(t)
  \/ \E t \in DOMAIN task : Build(t)
  \/ \E t \in DOMAIN task : PreHook(t)
  \/ \E t \in DOMAIN task : ExtPre(t)
  \/ \E t \in DOMAIN task : PreScript(t)
  \/ \E t \in DOMAIN task : Dispatch(t)
  \/ \E t \in DOMAIN task : Tests(t)
  \/ \E t \in DOMAIN task : PostHook(t)
  \/ \E t \in DOMAIN task : ExtPost(t)

Spec == Init /\ [][Next]_vars

\* The parallel runs, with every goroutine and the collector scheduled: a
\* step that can be taken is eventually taken (every case execution returns).

NextParallel ==
  \/ \E o \in {x \in RunOptionsSet(runner) : x.Parallel}, S \in FileSets : RunFolder(o, S)
  \/ IterBegin
  \/ ReturnSummary
  \/ Collect
  \/ CollectDone
  \/ \E t \in DOMAIN task : Enter(t)
  \/ \E t \in DOMAIN task : Build(t)
  \/ \E t \in DOMAIN task : PreHook(t)
  \/ \E t \in DOMAIN task : ExtPre(t)
  \/ \E t \in DOMAIN task : PreScript(t)
  \/ \E t \in DOMAIN task : Dispatch(t)
  \/ \E t \in DOMAIN task : Tests(t)
  \/ \E t \in DOMAIN task : PostHook(t)
  \/ \E t \in DOMAIN task : ExtPost(t)

SpecParallel == Init /\ [][NextParallel]_vars /\ WF_vars(NextParallel)

\* The runs that compare the two modes: collections of the catalog's files
\* whose cases write no variable, run without bail.
NoWriteFiles == {f \in 1..Len(Catalog) :
                   /\ Catalog[f].DelayMS = 0
                   /\ Catalog[f].VarsPost = EmptyMap
                   /\ \A n \in 1..Len(Catalog[f].PreRequest) :
                        Catalog[f].PreRequest[n].op \notin {"setVar", "iterSet", "unset"}
                   /\ \A n \in 1..Len(Catalog[f].PostResponse) :
                        Catalog[f].PostResponse[n].op \notin {"setVar", "iterSet", "unset"}}

NextModes ==
  \/ \E o \in {x \in RunOptionsSet(runner) : ~x.Bail},
          S \in {T \in SUBSET NoWriteFiles : Cardinality(T) <= MaxCases} : RunFolder(o, S)
  \/ IterBegin
  \/ ReturnSummary
  \/ SeqCall
  \/ SeqReturn
  \/ Collect
  \/ CollectDone
  \/ \E t \in DOMAIN task : Enter(t)
  \/ \E t \in DOMAIN task : Build(t)
  \/ \E t \in DOMAIN task : PreHook(t)
  \/ \E t \in DOMAIN task : ExtPre(t)
  \/ \E t \in DOMAIN task : PreScript(t)
  \/ \E t \in DOMAIN task : Dispatch(t)
  \/ \E t \in DOMAIN task : Tests(t)
  \/ \E t \in DOMAIN task : PostHook(t)
  \/ \E t \in DOMAIN task : ExtPost(t)

SpecModes == Init /\ [][NextModes]_vars

\* ---------------------------------------------------------------- the planner alone
\* The options buildIterations looks at, as a caller may set them.
PlanOptionsSet ==
  { [NoOpts EXCEPT !.IterationCount = n, !.CSVFilePath = c, !.JSONFilePath = j] :
      n \in {0 - 1, 0, 1, 2, 3},
      c \in {"", "missing.csv"} \cup DOMAIN CSVFiles,
      j \in {"", "missing.json"} \cup DOMAIN JSONFiles }

\* A runner that runs nothing while a function is called on its own.
NoHooks == [preHook |-> FALSE, postHook |-> FALSE]

InitPlan ==
  /\ runner = NoHooks
  /\ IdleRun
  /\ call \in {[fn |-> "buildIterations", opts |-> o] : o \in PlanOptionsSet}
  /\ ret = NoRet
  /\ last = ZeroResult
  /\ ctxCancelled = FALSE

CallBuildIterations ==
  /\ call.fn = "buildIterations"
  /\ ret = NoRet
  /\ ret' = [done |-> TRUE, val |-> buildIterations(call.opts)]
  /\ UNCHANGED <<runVars, call, last, ctxCancelled>>

NextPlan == CallBuildIterations

SpecPlan == InitPlan /\ [][NextPlan]_vars

\* ---------------------------------------------------------------- RunFile
\* runSingle up to the iteration loop: parse the file, merge vars, plan the
\* iterations. The one case is task 1.
RunFile(o, f) ==
  /\ pc = "idle"
  /\ LET bi == buildIterations(o)
         its == IF Len(bi.its) = 0 THEN <<[vars |-> EmptyMap, data |-> EmptyMap]>> ELSE bi.its
     IN IF bi.err # NoErr
        THEN /\ retErr' = bi.err
             /\ pc' = "done"
             /\ iterations' = iterations
        ELSE /\ retErr' = retErr
             /\ pc' = "file"
             /\ iterations' = its
  /\ files' = <<f>>
  /\ runnable' = <<f>>
  /\ task' = <<IdleTask>>
  /\ opts' = o
  /\ envVars' = MapsCopy(EmptyMap, o.Vars)
  /\ iterIdx' = 0
  /\ last' = ZeroResult
  /\ UNCHANGED <<runner, iterVars, caseIdx, caseCount, summary, outCh, recv, bailTriggered,
                 iterErr, ctxIterDone, events, faults, call, ret, ctxCancelled>>

\* Top of runSingle's loop: fresh iterVars, then the call of executeParsed,
\* whose opts.Vars is iterVars itself; after the last iteration, return last.
FileCall ==
  /\ pc = "file"
  /\ IF iterIdx < Len(iterations)
     THEN /\ iterVars' = MapsCopy(cloneStringMap(envVars), iterations[iterIdx + 1].vars)
          /\ task' = <<EnteredTask(EmptyMap)>>
          /\ pc' = "fileWait"
     ELSE /\ pc' = "done"
          /\ UNCHANGED <<iterVars, task>>
  /\ UNCHANGED <<sideVars, runner, opts, files, runnable, iterations, envVars, iterIdx,
                 caseIdx, caseCount, summary, retErr, outCh, recv, bailTriggered,
                 iterErr, ctxIterDone, events, faults>>

\* runSingle stopping at any failing iteration, bail or not.
FileReturnBailAlways ==
  /\ pc = "fileWait"
  /\ task[1].pc = "ret"
  /\ LET res == task[1].result
         err == task[1].err
     IN IF err # NoErr
        THEN /\ last' = ZeroResult
             /\ retErr' = err
             /\ pc' = "done"
             /\ iterIdx' = iterIdx
        ELSE /\ last' = res
             /\ retErr' = retErr
             /\ IF ~res.Passed /\ ~res.Skipped
                THEN pc' = "done" /\ iterIdx' = iterIdx
                ELSE IF iterIdx < Len(iterations) - 1 /\ opts.Delay > 0
                     THEN pc' = "fileSleep" /\ iterIdx' = iterIdx
                     ELSE pc' = "file" /\ iterIdx' = iterIdx + 1
  /\ task' = <<IdleTask>>
  /\ UNCHANGED <<runner, opts, files, runnable, iterations, envVars, iterVars,
                 caseIdx, caseCount, summary, outCh, recv, bailTriggered,
                 iterErr, ctxIterDone, events, faults, call, ret, ctxCancelled>>

\* executeParsed returned to runSingle: an error ends the run with
\* CaseResult{}; else the result becomes last, a failed result under bail is
\* returned at once, and before another iteration opts.Delay is slept.
FileReturn ==
  /\ pc = "fileWait"
  /\ task[1].pc = "ret"
  /\ LET res == task[1].result
         err == task[1].err
     IN IF err # NoErr
        THEN /\ last' = ZeroResult
             /\ retErr' = err
             /\ pc' = "done"
             /\ iterIdx' = iterIdx
        ELSE /\ last' = res
             /\ retErr' = retErr
             /\ IF ~res.Passed /\ ~res.Skipped /\ opts.Bail
                THEN pc' = "done" /\ iterIdx' = iterIdx
                ELSE IF iterIdx < Len(iterations) - 1 /\ opts.Delay > 0
                     THEN pc' = "fileSleep" /\ iterIdx' = iterIdx
                     ELSE pc' = "file" /\ iterIdx' = iterIdx + 1
  /\ task' = <<IdleTask>>
  /\ UNCHANGED <<runner, opts, files, runnable, iterations, envVars, iterVars,
                 caseIdx, caseCount, summary, outCh, recv, bailTriggered,
                 iterErr, ctxIterDone, events, faults, call, ret, ctxCancelled>>

NextFile ==
  \/ \E o \in {x \in RunOptionsSet(runner) : ~x.Parallel}, f \in MainFiles : RunFile(o, f)
  \/ FileCall
  \/ FileReturn
  \/ \E t \in DOMAIN task : Enter(t)
  \/ \E t \in DOMAIN task : Build(t)
  \/ \E t \in DOMAIN task : PreHook(t)
  \/ \E t \in DOMAIN task : ExtPre(t)
  \/ \E t \in DOMAIN task : PreScript(t)
  \/ \E t \in DOMAIN task : Dispatch(t)
  \/ \E t \in DOMAIN task : Tests(t)
  \/ \E t \in DOMAIN task : PostHook(t)
  \/ \E t \in DOMAIN task : ExtPost(t)

SpecFile == Init /\ [][NextFile]_vars

\* ---------------------------------------------------------------- delays and cancellation
\* runSingle: time.Sleep(opts.Delay) between iterations is over.
FileWake ==
  /\ pc = "fileSleep"
  /\ pc' = "file"
  /\ iterIdx' = iterIdx + 1
  /\ UNCHANGED <<sideVars, runner, opts, files, runnable, iterations, envVars, iterVars,
                 caseIdx, caseCount, summary, retErr, task, outCh, recv, bailTriggered,
                 iterErr, ctxIterDone, events, faults>>

\* The caller cancels the context it passed to RunFolder or RunFile.
Cancel ==
  /\ pc \notin {"idle", "done"}
  /\ ~ctxCancelled
  /\ ctxCancelled' = TRUE
  /\ UNCHANGED <<runVars, call, ret, last>>

\* The files of the runs with delays: without scripts or variables, one
\* with meta.delayMs.
DelayFiles == {5, 6, 7}

\* The options of the runs with delays: sequential, with or without
\* opts.Delay.
DelayOptionsSet(r) ==
  { [o EXCEPT !.Delay = dl] :
      o \in {x \in RunOptionsSet(r) : ~x.Parallel /\ ~x.TestsOnly /\ x.Tags = {}
                                         /\ x.ExcludeTags = {} /\ x.Vars = EmptyMap},
      dl \in {0, 1} }

NextDelay ==
  \/ \E o \in DelayOptionsSet(runner),
          S \in {T \in SUBSET DelayFiles : Cardinality(T) <= MaxCases} : RunFolder(o, S)
  \/ \E o \in DelayOptionsSet(runner), f \in DelayFiles : RunFile(o, f)
  \/ Cancel
  \/ IterBegin
  \/ ReturnSummary
  \/ SeqDelay
  \/ SeqCall
  \/ SeqReturn
  \/ FileCall
  \/ FileReturn
  \/ FileWake
  \/ \E t \in DOMAIN task : Enter(t)
  \/ \E t \in DOMAIN task : MetaDelay(t)
  \/ \E t \in DOMAIN task : Build(t)
  \/ \E t \in DOMAIN task : PreHook(t)
  \/ \E t \in DOMAIN task : ExtPre(t)
  \/ \E t \in DOMAIN task : Dispatch(t)
  \/ \E t \in DOMAIN task : Tests(t)
  \/ \E t \in DOMAIN task : PostHook(t)
  \/ \E t \in DOMAIN task : ExtPost(t)

SpecDelay == Init /\ [][NextDelay]_vars

\* ------------------------------------------------- executeTests, script level
\* Scripts as the statements that matter to the test phase: console.log(line),
\* a throw, and at the top level of the tests body test(name, fn), whose fn is
\* itself a script of console.log and throw statements.
Log(l) == [op |-> "log", line |-> l]

Throw == [op |-> "throw"]

Test(n, b) == [op |-> "test", name |-> n, fn |-> b]

\* The JS runtime of one executeTests call: the lines console.log appended to
\* consoleLogs and the tests registered so far.
NewVM == [logs |-> << >>, tests |-> << >>]

\* vm.RunString: statements run in order; a throw ends the script with an
\* error and what ran before it stays done.
RECURSIVE RunString(_, _, _)
RunString(code, k, vm) ==
  IF k > Len(code) THEN [vm |-> vm, threw |-> FALSE]
  ELSE LET st == code[k]
       IN CASE st.op = "throw" -> [vm |-> vm, threw |-> TRUE]
            [] st.op = "log" ->
                 RunString(code, k + 1, [vm EXCEPT !.logs = Append(@, st.line)])
            [] st.op = "test" ->
                 RunString(code, k + 1,
                           [vm EXCEPT !.tests = Append(@, [name |-> st.name, fn |-> st.fn])])

\* The assert loop: one failure per rule that does not hold, in rule order.
RECURSIVE EvalAsserts(_, _)
EvalAsserts(rules, k) ==
  IF k > Len(rules) THEN << >>
  ELSE (IF rules[k].holds THEN << >> ELSE <<rules[k].Left>>) \o EvalAsserts(rules, k + 1)

\* The test loop: every registered callback is called in registration order
\* in the same runtime; an error it returns appends a failure.
RECURSIVE InvokeTests(_, _, _)
InvokeTests(tests, k, st) ==
  IF k > Len(tests) THEN st
  ELSE LET r == RunString(tests[k].fn, 1, st.vm)
       IN InvokeTests(tests, k + 1,
                      [vm |-> r.vm,
                       failures |-> st.failures \o (IF r.threw THEN <<tests[k].name>> ELSE << >>),
                       invoked |-> Append(st.invoked, tests[k].name)])

ZeroJSResult == [Passed |-> FALSE, Failures |-> << >>, Console |-> << >>]

\* executeTests whose test loop is not entered once an assert has failed.
executeTestsJSAssertsAbort(p) ==
  IF ~p.BodyReadable
  THEN [result |-> ZeroJSResult, err |-> <<"read body:">>, invoked |-> << >>]
  ELSE LET vm1 == IF p.PostResponse # << >> THEN RunString(p.PostResponse, 1, NewVM).vm ELSE NewVM
           vm2 == RunString(p.PreRequest, 1, vm1).vm
           body == RunString(p.TestsRaw, 1, vm2)
       IN IF body.threw
          THEN [result |-> ZeroJSResult, err |-> <<"tests script:">>, invoked |-> << >>]
          ELSE LET consoleLogs == body.vm.logs
                   af == EvalAsserts(p.Asserts, 1)
                   start == [vm |-> body.vm, failures |-> af, invoked |-> << >>]
                   fin == IF af # << >> THEN start ELSE InvokeTests(body.vm.tests, 1, start)
               IN [result |-> [Passed |-> fin.failures = << >>,
                               Failures |-> fin.failures,
                               Console |-> consoleLogs],
                   err |-> NoErr, invoked |-> fin.invoked]

\* executeTests with its scripts spelled out: read the body, run the
\* post-response script and the pre-request script (their errors dropped),
\* run the tests body (its error is returned), build the result with the
\* console lines logged so far, run the asserts, then the registered tests.
\* invoked records the callbacks the test loop called.
executeTestsJS(p) ==
  IF ~p.BodyReadable
  THEN [result |-> ZeroJSResult, err |-> <<"read body:">>, invoked |-> << >>]
  ELSE LET vm1 == IF p.PostResponse # << >> THEN RunString(p.PostResponse, 1, NewVM).vm ELSE NewVM
           vm2 == RunString(p.PreRequest, 1, vm1).vm
           body == RunString(p.TestsRaw, 1, vm2)
       IN IF body.threw
          THEN [result |-> ZeroJSResult, err |-> <<"tests script:">>, invoked |-> << >>]
          ELSE LET consoleLogs == body.vm.logs
                   af == EvalAsserts(p.Asserts, 1)
                   fin == InvokeTests(body.vm.tests, 1,
                                      [vm |-> body.vm, failures |-> af, invoked |-> << >>])
               IN [result |-> [Passed |-> fin.failures = << >>,
                               Failures |-> fin.failures,
                               Console |-> consoleLogs],
                   err |-> NoErr, invoked |-> fin.invoked]

MaxStmts == 3

SeqsUpTo(S, n) == UNION {[1..k -> S] : k \in 0..n}

\* The cases the test phase is run on: their scripts, the statements of their
\* tests body (test callbacks among them) and their assert rules.
TestPhaseCases ==
  LET CallbackBodies == {<<Log("cb")>>, <<Throw>>, <<Log("cb"), Throw, Log("late")>>}
      TestsBodyStmts ==
        {Log("body"), Throw} \cup {Test(n, b) : n \in {"A", "B"}, b \in CallbackBodies}
      PostScripts == {<< >>, <<Log("post")>>, <<Log("post"), Throw, Log("late")>>}
      PreScripts == {<< >>, <<Log("pre")>>}
      AssertRules ==
        {[Left |-> "res.status", holds |-> TRUE], [Left |-> "res.body.id", holds |-> FALSE]}
  IN [PostResponse : PostScripts, PreRequest : PreScripts,
      TestsRaw : SeqsUpTo(TestsBodyStmts, MaxStmts),
      Asserts : SeqsUpTo(AssertRules, 2), BodyReadable : BOOLEAN]

InitTests ==
  /\ runner = NoHooks
  /\ IdleRun
  /\ call \in {[fn |-> "executeTests", p |-> p] : p \in TestPhaseCases}
  /\ ret = NoRet
  /\ last = ZeroResult
  /\ ctxCancelled = FALSE

CallExecuteTests ==
  /\ call.fn = "executeTests"
  /\ ret = NoRet
  /\ ret' = [done |-> TRUE, val |-> executeTestsJS(call.p)]
  /\ UNCHANGED <<runVars, call, last, ctxCancelled>>

NextTests == CallExecuteTests

SpecTests == InitTests /\ [][NextTests]_vars

\* ------------------------------------------------------- the tag filter alone
TagPool == {"smoke", "slow", "wip"}

InitTags ==
  /\ runner = NoHooks
  /\ IdleRun
  /\ call \in {[fn |-> "passesTagFilter", tags |-> t, include |-> i, exclude |-> x] :
                 t \in SUBSET TagPool, i \in SUBSET TagPool, x \in SUBSET TagPool}
  /\ ret = NoRet
  /\ last = ZeroResult
  /\ ctxCancelled = FALSE

CallPassesTagFilter ==
  /\ call.fn = "passesTagFilter"
  /\ ret = NoRet
  /\ ret' = [done |-> TRUE, val |-> passesTagFilter(call.tags, call.include, call.exclude)]
  /\ UNCHANGED <<runVars, call, last, ctxCancelled>>

NextTags == CallPassesTagFilter

SpecTags == InitTags /\ [][NextTags]_vars

\* ------------------------------------------------------ report header filter
\* strings.ToLower on the header names and skip-list entries in use.
ToLower(s) ==
  CASE s = "Authorization" -> "authorization"
    [] s = "Proxy-Authorization" -> "proxy-authorization"
    [] s = "PROXY-AUTHORIZATION" -> "proxy-authorization"
    [] s = "X-Foo" -> "x-foo"
    [] s = "Multipart/Related" -> "multipart/related"
    [] OTHER -> s

\* A Go map[string]string: nil, or a map.
NilMap == [nil |-> TRUE, m |-> EmptyMap]

MakeMap(m) == [nil |-> FALSE, m |-> m]

\* headerMap: nil for a nil header, else every name lower-cased and mapped to
\* its first value, or to "" when it has none.
headerMap(h) ==
  IF h.nil THEN NilMap
  ELSE MakeMap([k \in {ToLower(n) : n \in DOMAIN h.m} |->
                  LET n == CHOOSE n \in DOMAIN h.m : ToLower(n) = k
                  IN IF Len(h.m[n]) > 0 THEN h.m[n][1] ELSE ""])

\* filterHeaderMap that drops one header named in the skip set and then stops
\* looking.
filterHeaderMapOneSkip(hdrs, skipSet) ==
  IF hdrs.nil THEN NilMap
  ELSE LET hit == {k \in DOMAIN hdrs.m : ToLower(k) \in skipSet}
           first == CHOOSE k \in hit : \A j \in hit : Len(k) <= Len(j)
       IN MakeMap([k \in (DOMAIN hdrs.m) \ (IF hit = {} THEN {} ELSE {first}) |-> hdrs.m[k]])

\* filterHeaderMap: nil stays nil; else a new map without the headers whose
\* lower-cased name is in the skip set.
filterHeaderMap(hdrs, skipSet) ==
  IF hdrs.nil THEN NilMap
  ELSE MakeMap([k \in {k \in DOMAIN hdrs.m : ToLower(k) \notin skipSet} |-> hdrs.m[k]])

Masked == "********"

\* maskSensitiveHeaders that masks authorization only.
maskSensitiveHeadersAuthorizationOnly(hdrs) ==
  IF hdrs.nil THEN hdrs
  ELSE MakeMap([k \in DOMAIN hdrs.m |-> IF k = "authorization" THEN Masked ELSE hdrs.m[k]])

\* maskSensitiveHeaders: the values stored under exactly "authorization" and
\* "proxy-authorization" are overwritten in place.
maskSensitiveHeaders(hdrs) ==
  IF hdrs.nil THEN hdrs
  ELSE MakeMap([k \in DOMAIN hdrs.m |->
                  IF k \in {"authorization", "proxy-authorization"} THEN Masked ELSE hdrs.m[k]])

\* filterReportHeaders: the skip list lower-cased and trimmed into a set, the
\* cases copied, and per case either both maps nil (skipAll) or both maps
\* filtered and then masked. Only the cases' header maps are modelled.
filterReportHeaders(sum, skipAll, skipList) ==
  LET skipSet == {ToLower(TrimSpace(skipList[i])) : i \in 1..Len(skipList)}
  IN [i \in 1..Len(sum) |->
        IF skipAll
        THEN [sum[i] EXCEPT !.RequestHeaders = NilMap, !.ResponseHeaders = NilMap]
        ELSE [sum[i] EXCEPT
                !.RequestHeaders = maskSensitiveHeaders(filterHeaderMap(@, skipSet)),
                !.ResponseHeaders = maskSensitiveHeaders(filterHeaderMap(@, skipSet))]]

FilterReportHeaders(sum, o) ==
  filterReportHeaders(sum, o.ReporterSkipAllHeaders, o.ReporterSkipHeaders)

\* The request headers a case can have sent and the response headers it can
\* have received, as net/http holds them (canonical names, a list of values
\* per name); a case that dispatched nothing has nil maps.
Secrets == {"Bearer secret", "Basic secret"}

MaxReportCases == 2

\* The summaries FilterReportHeaders is called on, with the reporter options
\* a caller may set.
ReportCalls ==
  LET Choices(name, vals) == {EmptyMap} \cup {[k \in {name} |-> v] : v \in vals}
      RequestHeaderSets ==
        {[nil |-> TRUE, m |-> EmptyMap]}
        \cup {[nil |-> FALSE, m |-> MapsCopy(MapsCopy(a, p), x)] :
                a \in Choices("Authorization", {<<"Bearer secret">>}),
                p \in Choices("Proxy-Authorization", {<<"Basic secret">>}),
                x \in Choices("X-Foo", {<<"bar", "baz">>, << >>})}
      ResponseHeaderSets ==
        {[nil |-> TRUE, m |-> EmptyMap],
         [nil |-> FALSE, m |-> [k \in {"X-Foo"} |-> <<"bar">>]],
         [nil |-> FALSE, m |-> [k \in {"Authorization", "X-Foo"} |->
                                  IF k = "X-Foo" THEN <<"bar">> ELSE <<"Bearer secret">>]]}
      ReportCases ==
        {[RequestHeaders |-> headerMap(q), ResponseHeaders |-> headerMap(r)] :
           q \in RequestHeaderSets, r \in ResponseHeaderSets}
      ReportSummaries == UNION {[1..n -> ReportCases] : n \in 0..MaxReportCases}
      SkipLists ==
        {<< >>, <<"Authorization">>, <<"PROXY-AUTHORIZATION", " X-Foo ">>, <<"x-foo">>}
  IN {[fn |-> "FilterReportHeaders", sum |-> sm, opts |-> o] :
        sm \in ReportSummaries,
        o \in [ReporterSkipAllHeaders : BOOLEAN, ReporterSkipHeaders : SkipLists]}

InitReport ==
  /\ runner = NoHooks
  /\ IdleRun
  /\ call \in ReportCalls
  /\ ret = NoRet
  /\ last = ZeroResult
  /\ ctxCancelled = FALSE

\* writeOutputs' call of FilterReportHeaders on the run's summary.
CallFilterReportHeaders ==
  /\ call.fn = "FilterReportHeaders"
  /\ ret = NoRet
  /\ ret' = [done |-> TRUE, val |-> FilterReportHeaders(call.sum, call.opts), again |-> FALSE]
  /\ UNCHANGED <<runVars, call, last, ctxCancelled>>

\* FilterReportHeaders called on its own output with the same options.
CallFilterReportHeadersAgain ==
  /\ call.fn = "FilterReportHeaders"
  /\ ret.done /\ ~ret.again
  /\ ret' = [done |-> TRUE, val |-> FilterReportHeaders(ret.val, call.opts), again |-> TRUE]
  /\ call' = [call EXCEPT !.sum = ret.val]
  /\ UNCHANGED <<runVars, last, ctxCancelled>>

NextReport == CallFilterReportHeaders \/ CallFilterReportHeadersAgain

SpecReport == InitReport /\ [][NextReport]_vars

\* ------------------------------------------------------ request building
\* buildHTTPRequest as a whole. A header value or a body text is a sequence
\* of segments, as a URL is. p is the function's copy of the parsed file;
\* p.Headers is the map the copy shares with the parsed file, and the result's
\* headers field is that shared map when the function returns: a nil map is
\* replaced in the copy only, a non-nil one is written through. boundary is
\* the boundary multipart.NewWriter draws for this call.
BuildHTTPRequestWhole(p, vs, env, boundary) ==
  LET u == buildHTTPRequest(p, vs, env)
      btype == IF p.Body.Type = "" THEN "json" ELSE p.Body.Type
      ct == "Content-Type"
      \* orderedFormFields, or the Fields map when it finds none. The Fields
      \* maps in use hold at most one entry, where url.Values.Encode and a map
      \* range agree on the order.
      fields ==
        IF p.Body.Ordered # << >> THEN p.Body.Ordered
        ELSE IF DOMAIN p.Body.Fields = {} THEN << >>
        ELSE LET k == CHOOSE k \in DOMAIN p.Body.Fields : TRUE
             IN <<[key |-> k, value |-> p.Body.Fields[k]]>>
      parts == [i \in 1..Len(fields) |->
                  [key |-> fields[i].key, value |-> expand(fields[i].value, vs, env)]]
      text == expand(p.Body.Raw, vs, env)
      \* the body the switch writes; a multipart body is delimited by the
      \* boundary of the writer made for it
      body ==
        CASE ~p.Body.Present ->
               [enc |-> "none", boundary |-> "", text |-> << >>, parts |-> << >>]
          [] p.Body.Present /\ btype = "json" ->
               [enc |-> "json", boundary |-> "", text |-> text, parts |-> << >>]
          [] p.Body.Present /\ btype = "graphql" ->
               [enc |-> "graphql-json", boundary |-> "", text |-> text, parts |-> << >>]
          [] p.Body.Present /\ btype = "form-urlencoded" ->
               [enc |-> "urlencoded", boundary |-> "", text |-> << >>, parts |-> parts]
          [] p.Body.Present /\ btype = "multipart-form" ->
               [enc |-> "multipart", boundary |-> boundary, text |-> << >>, parts |-> parts]
          [] OTHER ->
               [enc |-> "raw", boundary |-> "", text |-> text, parts |-> << >>]
      \* the headers map the switch writes to, before and after
      before == IF p.Headers.nil THEN EmptyMap ELSE p.Headers.m
      Default(v) == IF ct \in DOMAIN before THEN before ELSE MapSet(before, ct, <<Lit(v)>>)
      related == /\ ct \in DOMAIN before
                 /\ \E i \in 1..Len(before[ct]) : ToLower(before[ct][i].name) = "multipart/related"
      after ==
        CASE ~p.Body.Present -> before
          [] p.Body.Present /\ btype \in {"json", "graphql"} -> Default("application/json")
          [] p.Body.Present /\ btype = "form-urlencoded" ->
               MapSet(before, ct, <<Lit("application/x-www-form-urlencoded")>>)
          [] p.Body.Present /\ btype = "multipart-form" ->
               IF related
               THEN IF \E i \in 1..Len(before[ct]) : before[ct][i].name = "; boundary="
                    THEN before
                    ELSE MapSet(before, ct, before[ct] \o <<Lit("; boundary="), Lit(boundary)>>)
               ELSE MapSet(before, ct,
                           <<Lit("multipart/form-data"), Lit("; boundary="), Lit(boundary)>>)
          [] p.Body.Present /\ btype = "xml" -> Default("application/xml")
          [] p.Body.Present /\ btype = "text" -> Default("text/plain")
          [] OTHER -> before
  IN IF u.err # NoErr
     THEN [req |-> [Method |-> "", URL |-> << >>,
                    Body |-> [enc |-> "none", boundary |-> "", text |-> << >>, parts |-> << >>],
                    Header |-> EmptyMap],
           err |-> u.err, headers |-> p.Headers]
     ELSE [req |-> [Method |-> u.req.Method, URL |-> u.req.URL, Body |-> body,
                    Header |-> [k \in DOMAIN after |-> expand(after[k], vs, env)]],
           err |-> NoErr,
           headers |-> IF p.Headers.nil THEN NilMap ELSE MakeMap(after)]

MaxBuilds == 2

\* The parsed files requests are built from, and the expander's variables.
BuildCalls ==
  LET raw == <<Lit("{a:"), Var("tok"), Lit("}")>>
      fld == <<[key |-> "f", value |-> <<Var("tok")>>], [key |-> "g", value |-> <<Lit("v")>>]>>
      B(present, type, r, ordered, fields) ==
        [Present |-> present, Type |-> type, Raw |-> r, Ordered |-> ordered, Fields |-> fields]
      BuildBodies ==
        {B(FALSE, "", << >>, << >>, EmptyMap),
         B(TRUE, "", raw, << >>, EmptyMap),
         B(TRUE, "json", raw, << >>, EmptyMap),
         B(TRUE, "graphql", raw, << >>, EmptyMap),
         B(TRUE, "form-urlencoded", << >>, fld, EmptyMap),
         B(TRUE, "form-urlencoded", << >>, << >>, [f |-> <<Var("tok")>>]),
         B(TRUE, "multipart-form", << >>, fld, EmptyMap),
         B(TRUE, "multipart-form", << >>, << >>, [f |-> <<Var("tok")>>]),
         B(TRUE, "xml", raw, << >>, EmptyMap),
         B(TRUE, "text", raw, << >>, EmptyMap),
         B(TRUE, "sparql", raw, << >>, EmptyMap)}
      BuildHeaderMaps ==
        {NilMap,
         MakeMap(EmptyMap),
         MakeMap([Accept |-> <<Var("tok")>>]),
         MakeMap(MapSet(EmptyMap, "Content-Type", <<Lit("application/custom")>>)),
         MakeMap(MapSet(EmptyMap, "Content-Type",
                        <<Lit("multipart/related"), Lit("; type=xop")>>)),
         MakeMap(MapSet(EmptyMap, "Content-Type", <<Lit("Multipart/Related")>>))}
  IN {[fn |-> "buildHTTPRequest",
       p |-> [Verb |-> "POST", URL |-> u, PathParams |-> EmptyMap, Body |-> b, Headers |-> h],
       vars |-> v] :
        u \in {<<Lit("http://h/a")>>, <<Var("baseUrl"), Lit("/b")>>},
        b \in BuildBodies, h \in BuildHeaderMaps,
        v \in {[tok |-> "t1"], [baseUrl |-> "http://h", tok |-> "t1"]}}

InitBuild ==
  /\ runner = NoHooks
  /\ IdleRun
  /\ call \in BuildCalls
  /\ ret = NoRet
  /\ last = ZeroResult
  /\ ctxCancelled = FALSE

\* One call of buildHTTPRequest by executeParsed: the first for a parsed file,
\* or a later one (a further repetition or iteration) for the same parsed
\* file and the same variables. call.p is the file as parsed; ret.headers is
\* its headers map as the builds so far have left it. Each call's writer
\* draws its own boundary.
CallBuildHTTPRequest ==
  /\ call.fn = "buildHTTPRequest"
  /\ LET builds == IF ret.done THEN ret.builds ELSE << >>
         hdrs == IF ret.done THEN ret.headers ELSE call.p.Headers
     IN /\ Len(builds) < MaxBuilds
        /\ \E b \in {"b1", "b2"} :
             LET r == BuildHTTPRequestWhole([call.p EXCEPT !.Headers = hdrs],
                                            call.vars, EmptyMap, b)
             IN ret' = [done |-> TRUE, headers |-> r.headers,
                        builds |-> Append(builds, [req |-> r.req, err |-> r.err])]
  /\ UNCHANGED <<runVars, call, last, ctxCancelled>>

NextBuild == CallBuildHTTPRequest

SpecBuild == InitBuild /\ [][NextBuild]_vars

\* ------------------------------------------------------ variable maps
\* Go maps are references: heap is the sequence of the maps that exist, a
\* reference is an index into it, and 0 is the nil map. Two names that hold
\* the same reference see each other's writes.
Deref(heap, ref) == IF ref = 0 THEN EmptyMap ELSE heap[ref]

\* RunFolder / runSingle up to the iteration loop, with maps.Copy's arguments
\* exchanged: the environment's entries are copied into the caller's map.
MergeVarsIntoCaller(heap, callerVars, envFile) ==
  LET caller == IF callerVars.nil THEN 0 ELSE 1
      h1 == IF envFile.nil THEN heap ELSE Append(heap, envFile.m)
      e1 == IF envFile.nil THEN 0 ELSE Len(h1)
  IN IF Deref(h1, caller) = EmptyMap
     THEN [heap |-> h1, envVars |-> e1]
     ELSE [heap |-> [h1 EXCEPT ![caller] = MapsCopy(h1[caller], Deref(h1, e1))],
           envVars |-> e1]

\* RunFolder / runSingle up to the iteration loop: loadEnv returns nil or a
\* new map; a non-empty opts.Vars is copied into it, or into a new map when
\* it is nil. The caller's opts.Vars is reference 1 when it is a map.
MergeVars(heap, callerVars, envFile) ==
  LET caller == IF callerVars.nil THEN 0 ELSE 1
      h1 == IF envFile.nil THEN heap ELSE Append(heap, envFile.m)
      e1 == IF envFile.nil THEN 0 ELSE Len(h1)
  IN IF Deref(h1, caller) = EmptyMap
     THEN [heap |-> h1, envVars |-> e1]
     ELSE LET h2 == IF e1 = 0 THEN Append(h1, EmptyMap) ELSE h1
              e2 == IF e1 = 0 THEN Len(h2) ELSE e1
          IN [heap |-> [h2 EXCEPT ![e2] = MapsCopy(h2[e2], h1[caller])], envVars |-> e2]

\* bru.setVar calls of a script: expander.set on the expander's map
RECURSIVE ApplySets(_, _)
ApplySets(m, ops) ==
  IF ops = << >> THEN m
  ELSE ApplySets(IF Head(ops).op = "setVar" THEN MapSet(m, Head(ops).key, Head(ops).val) ELSE m,
                 Tail(ops))

\* executeParsed's handling of variables for case p, whose opts.Vars is the
\* map caseRef: newExpander copies it into a new map and vars:pre-request is
\* copied in; the scripts' bru.setVar calls write the expander's map; every
\* vars:post-response entry goes into the expander's map and into opts.Vars,
\* which is made first when it is nil.
ExecuteParsedVars(heap, caseRef, p) ==
  LET h1 == Append(heap, MapsCopy(MapsCopy(EmptyMap, Deref(heap, caseRef)), p.VarsPre))
      exp == Len(h1)
      h2 == [h1 EXCEPT ![exp] = ApplySets(@, p.Sets)]
  IN IF DOMAIN p.VarsPost = {}
     THEN [heap |-> h2, caseVars |-> caseRef, expVars |-> exp]
     ELSE LET h3 == IF caseRef = 0 THEN Append(h2, EmptyMap) ELSE h2
              c1 == IF caseRef = 0 THEN Len(h3) ELSE caseRef
              h4 == [h3 EXCEPT ![exp] = MapsCopy(h3[exp], p.VarsPost)]
          IN [heap |-> [h4 EXCEPT ![c1] = MapsCopy(h4[c1], p.VarsPost)],
              caseVars |-> c1, expVars |-> exp]

MaxVarCases == 2

\* The calls: the caller's RunOptions.Vars, what loadEnv returns (nil without
\* an environment file), the iteration plan's rows, and what each case does
\* to variables (vars:pre-request, its scripts' bru.setVar calls,
\* vars:post-response).
VarCalls ==
  LET VarCases ==
        {[VarsPre |-> EmptyMap, Sets |-> << >>, VarsPost |-> [tok |-> "p1"]],
         [VarsPre |-> [tok |-> "q1"], Sets |-> <<SetVar("tok", "s1"), SetVar("fresh", "s2")>>,
          VarsPost |-> EmptyMap],
         [VarsPre |-> EmptyMap, Sets |-> <<SetVar("baseUrl", "s3")>>,
          VarsPost |-> [fresh |-> "p2"]]}
      CallerVarMaps ==
        {NilMap, MakeMap(EmptyMap), MakeMap([tok |-> "c1"]),
         MakeMap([tok |-> "c1", baseUrl |-> "http://h"])}
      EnvFileMaps == {NilMap, MakeMap([tok |-> "e1"]), MakeMap([region |-> "eu"])}
      Plans == {<<EmptyMap>>, <<[row |-> "r1"], [row |-> "r2", tok |-> "d2"]>>}
  IN {[fn |-> "RunFolder", Vars |-> v, EnvFile |-> e, Parallel |-> par, plan |-> it,
       cases |-> cs] :
        v \in CallerVarMaps, e \in EnvFileMaps, par \in BOOLEAN, it \in Plans,
        cs \in UNION {[1..n -> VarCases] : n \in 1..MaxVarCases}}
     \cup
     {[fn |-> "RunFile", Vars |-> v, EnvFile |-> e, Parallel |-> FALSE, plan |-> it,
       cases |-> <<c>>] :
        v \in CallerVarMaps, e \in EnvFileMaps, it \in Plans, c \in VarCases}

InitVars ==
  /\ runner = NoHooks
  /\ IdleRun
  /\ call \in VarCalls
  /\ ret = NoRet
  /\ last = ZeroResult
  /\ ctxCancelled = FALSE

VarsCall == call.fn \in {"RunFolder", "RunFile"} /\ "plan" \in DOMAIN call

\* loadEnv and the merge of opts.Vars, before the iteration loop
VarsMerge ==
  /\ VarsCall
  /\ ret = NoRet
  /\ LET heap0 == IF call.Vars.nil THEN << >> ELSE <<call.Vars.m>>
         r == MergeVars(heap0, call.Vars, call.EnvFile)
     IN ret' = [done |-> FALSE, step |-> "merged", heap |-> r.heap, envVars |-> r.envVars,
                iterVars |-> 0, caseVars |-> 0, expVars |-> 0, iter |-> 0, case |-> 0]
  /\ UNCHANGED <<runVars, call, last, ctxCancelled>>

VarsStep(s) == VarsCall /\ ret # NoRet /\ ret.step = s

\* The head of the iteration loop:
\* iterVars := cloneStringMap(envVars); maps.Copy(iterVars, iter.vars)
VarsBeginIteration ==
  /\ \/ VarsStep("merged")
     \/ VarsStep("executed") /\ ret.case = Len(call.cases)
  /\ ret.iter < Len(call.plan)
  /\ ret' = [ret EXCEPT !.step = "iter",
                        !.heap = Append(@, MapsCopy(cloneStringMap(Deref(ret.heap, ret.envVars)),
                                                    call.plan[ret.iter + 1])),
                        !.iterVars = Len(ret.heap) + 1,
                        !.iter = @ + 1, !.case = 0]
  /\ UNCHANGED <<runVars, call, last, ctxCancelled>>

\* caseOpts for the next case of the iteration: caseOpts.Vars is a clone of
\* iterVars for a parallel task, iterVars itself in sequential mode and in
\* runSingle.
VarsCaseOptions ==
  /\ VarsStep("iter") \/ VarsStep("executed")
  /\ ret.case < Len(call.cases)
  /\ ret' = IF call.Parallel
            THEN [ret EXCEPT !.step = "case", !.case = @ + 1,
                             !.heap = Append(@, cloneStringMap(Deref(ret.heap, ret.iterVars))),
                             !.caseVars = Len(ret.heap) + 1]
            ELSE [ret EXCEPT !.step = "case", !.case = @ + 1, !.caseVars = ret.iterVars]
  /\ UNCHANGED <<runVars, call, last, ctxCancelled>>

\* executeParsed on the case
VarsExecuteParsed ==
  /\ VarsStep("case")
  /\ LET r == ExecuteParsedVars(ret.heap, ret.caseVars, call.cases[ret.case])
     IN ret' = [ret EXCEPT !.step = "executed", !.heap = r.heap, !.caseVars = r.caseVars,
                           !.expVars = r.expVars]
  /\ UNCHANGED <<runVars, call, last, ctxCancelled>>

\* The call returns after the last case of the last iteration
VarsReturn ==
  /\ VarsStep("executed")
  /\ ret.case = Len(call.cases) /\ ret.iter = Len(call.plan)
  /\ ret' = [ret EXCEPT !.step = "return", !.done = TRUE]
  /\ UNCHANGED <<runVars, call, last, ctxCancelled>>

NextVars ==
  \/ VarsMerge
  \/ VarsBeginIteration
  \/ VarsCaseOptions
  \/ VarsExecuteParsed
  \/ VarsReturn

SpecVars == InitVars /\ [][NextVars]_vars

\* ------------------------------------------------------ concurrent calls
\* executeParsed's choice of client and timeout, with the choice stored in the
\* runner's fields.
ExecuteSettingsStoredInRunner(r, o, p) ==
  LET client == IF o.HTTPClient # "" THEN o.HTTPClient ELSE r.httpClient
      t1 == IF o.Timeout > 0 THEN o.Timeout ELSE r.timeout
      t2 == IF p.TimeoutMS > 0 THEN p.TimeoutMS ELSE t1
  IN [runner |-> [r EXCEPT !.httpClient = client, !.timeout = t2],
      client |-> client, timeout |-> t2]

\* executeParsed's choice of client and timeout: the runner's, overridden by
\* the call's options and the case's meta timeout, held in local variables.
\* The result carries the runner as the function leaves it.
ExecuteSettings(r, o, p) ==
  LET client == IF o.HTTPClient # "" THEN o.HTTPClient ELSE r.httpClient
      t1 == IF o.Timeout > 0 THEN o.Timeout ELSE r.timeout
      t2 == IF p.TimeoutMS > 0 THEN p.TimeoutMS ELSE t1
  IN [runner |-> r, client |-> client, timeout |-> t2]

\* The case's result: client.Do under the timeout fails when the server
\* answers later than the timeout; the pre-request hook runs when set.
ConcCaseResult(r, s, p) ==
  [Passed |-> p.Latency <= s.timeout, client |-> s.client, hooked |-> r.preHook]

MaxConcCases == 2

\* One call: the function, its options, and the cases it parses for itself.
ConcCalls ==
  LET ConcCases == {[Latency |-> 2, TimeoutMS |-> 0], [Latency |-> 2, TimeoutMS |-> 1]}
      ConcOptions == [Timeout : {0, 1}, HTTPClient : {"", "own"}]
  IN {[fn |-> "RunFolder", opts |-> o, cases |-> cs] :
        o \in ConcOptions, cs \in UNION {[1..n -> ConcCases] : n \in 1..MaxConcCases}}
     \cup
     {[fn |-> "RunFile", opts |-> o, cases |-> <<c>>] : o \in ConcOptions, c \in ConcCases}

\* Two calls on one runner, running concurrently. The runner is as New built
\* it, its fields set there once; each call's goroutine has its place, its
\* local settings and its results so far.
InitConc ==
  /\ runner \in {[preHook |-> h, postHook |-> FALSE, timeout |-> t, httpClient |-> "shared"] :
                   h \in BOOLEAN, t \in {1, 3}}
  /\ IdleRun
  /\ call \in {[fn |-> "concurrent", cfg |-> runner, calls |-> cs] :
                 cs \in [1..2 -> ConcCalls]}
  /\ ret = [done |-> FALSE,
            g |-> [i \in 1..2 |->
                     [pc |-> "start", idx |-> 0, client |-> "", timeout |-> 0,
                      results |-> << >>, overlapped |-> FALSE]]]
  /\ last = ZeroResult
  /\ ctxCancelled = FALSE

\* Call i enters executeParsed for its next case and settles its settings.
ConcSettle(i) ==
  /\ call.fn = "concurrent"
  /\ ret.g[i].pc \in {"start", "dispatched"}
  /\ ret.g[i].idx < Len(call.calls[i].cases)
  /\ LET s == ExecuteSettings(runner, call.calls[i].opts, call.calls[i].cases[ret.g[i].idx + 1])
     IN /\ runner' = s.runner
        /\ ret' = [ret EXCEPT !.g[i] =
                     [@ EXCEPT !.pc = "settled", !.idx = @ + 1, !.client = s.client,
                               !.timeout = s.timeout,
                               !.overlapped = @ \/ ret.g[3 - i].pc \in {"settled", "dispatched"}]]
  /\ UNCHANGED <<pc, opts, files, runnable, iterations, envVars, iterIdx, iterVars,
                 caseIdx, caseCount, summary, retErr, task, outCh, recv, bailTriggered,
                 iterErr, ctxIterDone, events, faults, call, last, ctxCancelled>>

\* Call i runs its pre-request hook, dispatches and records the result.
ConcDispatch(i) ==
  /\ call.fn = "concurrent"
  /\ ret.g[i].pc = "settled"
  /\ ret' = [ret EXCEPT !.g[i] =
               [@ EXCEPT !.pc = "dispatched",
                         !.results = Append(@, ConcCaseResult(runner,
                                        [client |-> ret.g[i].client, timeout |-> ret.g[i].timeout],
                                        call.calls[i].cases[ret.g[i].idx]))]]
  /\ UNCHANGED <<runVars, call, last, ctxCancelled>>

\* Call i returns its summary, or its last case result.
ConcReturn(i) ==
  /\ call.fn = "concurrent"
  /\ ret.g[i].pc = "dispatched"
  /\ ret.g[i].idx = Len(call.calls[i].cases)
  /\ ret' = [ret EXCEPT !.g[i].pc = "done", !.done = ret.g[3 - i].pc = "done"]
  /\ UNCHANGED <<runVars, call, last, ctxCancelled>>

NextConc == \E i \in 1..2 : ConcSettle(i) \/ ConcDispatch(i) \/ ConcReturn(i)

SpecConc == InitConc /\ [][NextConc]_vars

\* ---------------------------------------------------------------- properties
ReturnedOK == pc = "done" /\ retErr = NoErr

IsFailed(r) == ~r.Passed /\ ~r.Skipped

CasesWhere(P(_)) == Cardinality({i \in 1..Len(summary.Cases) : P(summary.Cases[i])})

\* C1: in every summary RunFolder returns without error (either mode, with or
\* without bail, any iteration count) passed + failed + skipped = len(cases),
\* and each case result is counted in exactly one counter: skipped if Skipped,
\* else passed if Passed, else failed.
C1_CountersPartitionCases ==
  ReturnedOK =>
    /\ summary.Passed + summary.Failed + summary.Skipped = Len(summary.Cases)
    /\ summary.Skipped = CasesWhere(LAMBDA r : r.Skipped)
    /\ summary.Passed = CasesWhere(LAMBDA r : ~r.Skipped /\ r.Passed)
    /\ summary.Failed = CasesWhere(LAMBDA r : ~r.Skipped /\ ~r.Passed)

\* A parallel run without bail returned a summary holding a passed, a failed
\* and a skipped case.
C1_Witness ==
  /\ ReturnedOK
  /\ opts.Parallel
  /\ summary.Passed >= 1
  /\ summary.Failed >= 1
  /\ summary.Skipped >= 1

\* The number of discovered files whose tags pass the include/exclude filter,
\* and the number of planned iterations, read off the call's inputs.
ExpectedRunnable ==
  Cardinality({i \in 1..Len(files) :
     LET tg == Catalog[files[i]].Tags
     IN /\ (opts.Tags = {} \/ tg \cap opts.Tags # {})
        /\ tg \cap opts.ExcludeTags = {}})

ExpectedIterations == IF opts.IterationCount <= 0 THEN 1 ELSE opts.IterationCount

BailHit == opts.Bail /\ summary.Failed > 0

\* C2: summary.Total = (discovered cases passing the tag filter) x (planned
\* iterations) from before the first case executes until the summary is
\* returned; the returned summary has len(cases) <= total, with equality
\* whenever bail did not trigger.
C2_TotalIsRunnableTimesIterations ==
  /\ (pc # "idle" /\ retErr = NoErr) =>
       summary.Total = ExpectedRunnable * ExpectedIterations
  /\ ReturnedOK =>
       /\ Len(summary.Cases) <= summary.Total
       /\ (~BailHit => Len(summary.Cases) = summary.Total)

\* A run that filtered a file out by tag and was cut short by bail.
C2_Witness ==
  /\ ReturnedOK
  /\ Len(files) > Len(runnable)
  /\ Len(runnable) >= 1
  /\ Len(summary.Cases) >= 1
  /\ Len(summary.Cases) < summary.Total

\* passed <=> no failure and no errorText; skipped => passed
ResultConsistent(r) ==
  /\ r.Passed <=> (r.Failures = << >> /\ r.ErrorText = NoErr)
  /\ r.Skipped => r.Passed

\* C3: every CaseResult the case executor returns with a nil error has
\* passed <=> (failures empty and errorText empty), and skipped => passed, on
\* every path (skip, transport failure, test-phase error, assertion failure,
\* success) and for the result of the last executed repetition.
C3_PassedIffNoFailureNoError ==
  /\ \A t \in DOMAIN task :
       (task[t].pc = "ret" /\ task[t].err = NoErr) => ResultConsistent(task[t].result)
  /\ \A i \in 1..Len(outCh) :
       outCh[i].err = NoErr => ResultConsistent(outCh[i].res)
  /\ \A i \in 1..Len(summary.Cases) : ResultConsistent(summary.Cases[i])

\* The executor returned the failed result of a second repetition of a case
\* whose first repetition had passed.
C3_Witness ==
  \E t \in DOMAIN task :
    /\ task[t].pc = "ret"
    /\ task[t].err = NoErr
    /\ task[t].result.Failures # << >>
    /\ <<"tests", runnable[t], iterIdx, 1>> \in events

\* The case results of iteration it in the summary (n results per iteration).
IterBlock(it) ==
  LET n == Len(runnable)
  IN {summary.Cases[k] : k \in {j \in 1..Len(summary.Cases) : (j - 1) \div n = it}}

\* C4: a transport error never makes the case executor return a run error;
\* the case is reported failed with an errorText that begins with
\* "http request failed:" and counted in summary.failed, and without bail
\* every remaining case and iteration is still executed.
C4_TransportErrorIsCaseFailure ==
  /\ \A e \in events :
       e[1] = "dispatchFailed" =>
         ~\E r \in 0..e[4] : <<"runError", e[2], e[3], r>> \in events
  /\ ReturnedOK =>
       \A e \in events :
         e[1] = "dispatchFailed" =>
           /\ \E c \in IterBlock(e[3]) :
                /\ c.FilePath = Catalog[e[2]].FilePath
                /\ ~c.Passed /\ ~c.Skipped
                /\ c.ErrorText # << >>
                /\ Head(c.ErrorText) = "http request failed:"
           /\ summary.Failed >= 1
           /\ ~opts.Bail => Len(summary.Cases) = Len(runnable) * Len(iterations)

\* A run without bail whose first iteration had a transport failure and that
\* went on through a second case and a second iteration.
C4_Witness ==
  /\ ReturnedOK
  /\ ~opts.Bail
  /\ Len(runnable) = 2
  /\ Len(summary.Cases) = 4
  /\ \E e \in events : e[1] = "dispatchFailed" /\ e[3] = 0 /\ e[2] = runnable[1]

\* The placeholders a file's URL keeps under an expander map, in URL order:
\* a {{name}} the map (and the OS environment) cannot resolve, or a :param
\* whose value is such a placeholder.
RECURSIVE ExpectedUnresolved(_, _, _)
ExpectedUnresolved(p, exp, k) ==
  IF k > Len(p.URL) THEN << >>
  ELSE LET seg == p.URL[k]
           ph == IF seg.kind = "param" /\ seg.name \in DOMAIN p.PathParams
                 THEN p.PathParams[seg.name] ELSE seg
           here == IF ph.kind = "var" /\ ph.name \notin (DOMAIN exp \cup DOMAIN osEnv)
                   THEN <<ph.name>> ELSE << >>
       IN here \o ExpectedUnresolved(p, exp, k + 1)

\* Position of a history event in sequential run order.
Index(f) == CHOOSE k \in 1..Len(runnable) : runnable[k] = f

Pos(e) == e[3] * Len(runnable) + Index(e[2])

\* A failed build returns the error that names, in URL order, every
\* placeholder left in the URL.
BuildErrorNamesEveryVariable ==
  \A t \in DOMAIN task :
    (task[t].pc = "build" /\ task'[t].pc \in {"ret", "sent"}) =>
      LET err == IF opts.Parallel THEN outCh'[Len(outCh')].err ELSE task'[t].err
      IN /\ ExpectedUnresolved(Catalog[runnable[t]], task[t].exp, 1) # << >>
         /\ err = <<"unresolved variable(s) in url:">>
                    \o ExpectedUnresolved(Catalog[runnable[t]], task[t].exp, 1)

C7_SkippedCaseNeverBuildsOrDispatches ==
  \A e \in events :
    LET p == Catalog[e[2]]
    IN /\ ~p.Skip
       /\ ~(opts.TestsOnly /\ p.Tests = << >> /\ p.Asserts = << >>)
       /\ (opts.Tags = {} \/ p.Tags \cap opts.Tags # {})
       /\ p.Tags \cap opts.ExcludeTags = {}
       /\ \E k \in 1..Len(runnable) : runnable[k] = e[2]

\* A tests-only run returned with a skipped case in each of two iterations
\* while another case was dispatched.
C7_Witness ==
  /\ ReturnedOK
  /\ opts.TestsOnly
  /\ summary.Skipped >= 2
  /\ \E e \in events : e[1] = "dispatch"

\* C8: sequential mode with bail stops at the first case result that is
\* neither passed nor skipped: once a failed case is accumulated the summary
\* is returned without error, it ends with that case, nothing after it in
\* run order was built or dispatched, and a run cut short ends with a failed
\* (never a skipped) case.
C8_SequentialBailStopsAtFirstFailure ==
  (~opts.Parallel /\ opts.Bail) =>
    /\ summary.Failed >= 1 =>
         /\ ReturnedOK
         /\ summary.Failed = 1
         /\ IsFailed(summary.Cases[Len(summary.Cases)])
         /\ \A e \in events : Pos(e) <= Len(summary.Cases)
    /\ (ReturnedOK /\ Len(summary.Cases) < summary.Total) =>
         /\ Len(summary.Cases) >= 1
         /\ IsFailed(summary.Cases[Len(summary.Cases)])

\* A sequential bail run stopped before the end, after a skipped case had
\* not stopped it.
C8_Witness ==
  /\ ~opts.Parallel
  /\ opts.Bail
  /\ ReturnedOK
  /\ Len(summary.Cases) < summary.Total
  /\ \E i \in 1..Len(summary.Cases) : summary.Cases[i].Skipped

FirstFailed == CHOOSE i \in 1..Len(summary.Cases) :
                 /\ IsFailed(summary.Cases[i])
                 /\ \A j \in 1..(i - 1) : ~IsFailed(summary.Cases[j])

\* C9: parallel mode with bail: when a case of iteration i fails, the
\* summary holds the result of every case task of iteration i
\* (len(cases) = (i+1) x |runnable|, one result per runnable file in the
\* last block) and no task of a later iteration ever ran.
C9_ParallelBailFinishesIteration ==
  (opts.Parallel /\ opts.Bail /\ ReturnedOK /\ summary.Failed >= 1) =>
    LET n == Len(runnable)
        i == (FirstFailed - 1) \div n
    IN /\ Len(summary.Cases) = (i + 1) * n
       /\ {c.FilePath : c \in IterBlock(i)} = {Catalog[runnable[k]].FilePath : k \in 1..n}
       /\ \A e \in events : e[3] <= i

\* A parallel bail run of two cases and two planned iterations returned
\* after the first iteration: the failed result was received first and the
\* other task's result was still recorded.
C9_Witness ==
  /\ opts.Parallel
  /\ opts.Bail
  /\ ReturnedOK
  /\ Len(runnable) = 2
  /\ Len(iterations) = 2
  /\ Len(summary.Cases) = 2
  /\ IsFailed(summary.Cases[1])
  /\ ~IsFailed(summary.Cases[2])
  /\ ~summary.Cases[2].Skipped

\* C10 as claimed: in parallel mode the results of each iteration appear in
\* summary.cases in the sorted input order of the cases.
C10_ParallelResultsInInputOrder ==
  (opts.Parallel /\ ReturnedOK) =>
    \A k \in 1..Len(summary.Cases) :
      summary.Cases[k].FilePath =
        Catalog[runnable[((k - 1) % Len(runnable)) + 1]].FilePath

\* C11: iterations run strictly in plan order, in both modes: a case starts
\* only when no case of an earlier iteration is still running and every
\* result of the earlier iterations is recorded; nothing ever ran for an
\* iteration after the current one; and each result is appended into the
\* block of summary.cases of the iteration that produced it, so the results
\* of iteration i precede those of iteration i+1.
C11_IterationsInPlanOrder ==
  /\ [](/\ \A e \in events : e[3] <= iterIdx
        /\ (\E t \in DOMAIN task : task[t].pc \notin {"idle", "sent"}) =>
              Len(summary.Cases) >= iterIdx * Len(runnable))
  /\ [][\A t \in DOMAIN task' :
          (task'[t].pc = "enter" /\ (t \notin DOMAIN task \/ task[t].pc # "enter")) =>
             /\ \A u \in DOMAIN task : task[u].pc = "idle"
             /\ Len(summary.Cases) >= iterIdx' * Len(runnable')
             /\ \A e \in events : e[3] < iterIdx' \/ ~opts'.Parallel]_vars
  /\ [][Len(summary'.Cases) = Len(summary.Cases) + 1 =>
          /\ Len(summary.Cases) \div Len(runnable) = iterIdx
          /\ LET r == summary'.Cases[Len(summary'.Cases)]
             IN \E k \in 1..Len(runnable) :
                  /\ Catalog[runnable[k]].FilePath = r.FilePath
                  /\ r.Skipped \/ \E e \in events : e[2] = runnable[k] /\ e[3] = iterIdx]_vars

\* The second iteration of a parallel run of two cases is dispatching while
\* the summary holds the two results of the first.
C11_Witness ==
  /\ opts.Parallel
  /\ Len(runnable) = 2
  /\ iterIdx = 1
  /\ Len(summary.Cases) = 2
  /\ \E e \in events : e[1] = "dispatch" /\ e[3] = 1
  /\ \E e \in events : e[1] = "dispatch" /\ e[3] = 0

\* C12: in sequential mode the cases of each iteration execute one at a
\* time in ascending (meta.seq, filePath) order: the runnable cases are in
\* that order, at most one case is executing, it is the next one in that
\* order after the results recorded so far, and summary.cases lists the
\* results in the same order, iteration after iteration.
C12_SequentialCasesInSortOrder ==
  (~opts.Parallel /\ pc # "idle") =>
    LET n == Len(runnable)
        key(k) == <<Catalog[runnable[k]].Seq, PathRank(Catalog[runnable[k]].FilePath)>>
        running == {t \in DOMAIN task : task[t].pc # "idle"}
    IN /\ \A i, j \in 1..n :
            i < j => \/ key(i)[1] < key(j)[1]
                     \/ (key(i)[1] = key(j)[1] /\ key(i)[2] < key(j)[2])
       /\ Cardinality(running) <= 1
       /\ \A t \in running :
            /\ pc = "seqWait"
            /\ Len(summary.Cases) = iterIdx * n + (t - 1)
       /\ retErr = NoErr => \A e \in events : Pos(e) <= Len(summary.Cases) + 1
       /\ \A k \in 1..Len(summary.Cases) :
            summary.Cases[k].FilePath = Catalog[runnable[((k - 1) % n) + 1]].FilePath

\* A sequential run of a.bru (seq 2) and c.bru (seq 1) over two iterations
\* returned c, a, c, a: seq decides before the path does.
C12_Witness ==
  /\ ~opts.Parallel
  /\ ReturnedOK
  /\ Len(summary.Cases) = 4
  /\ summary.Cases[1].FilePath = "c.bru"
  /\ summary.Cases[2].FilePath = "a.bru"
  /\ summary.Cases[3].FilePath = "c.bru"
  /\ <<"dispatch", 1, 1, 0>> \in events

\* The tasks whose expander was just built: at the first build of a case.
AtFirstBuild(t) == task[t].pc = "build" /\ task[t].i = 0

File(t) == Catalog[runnable[t]]

\* C13 as claimed: in sequential mode a variable a case's pre-request script
\* wrote with bru.setVar(k, v) is resolved to v by every subsequent case of
\* the same iteration (no case in between writes k in vars:post-response
\* and the later case does not set k in vars:pre-request).
C13_SetVarVisibleToLaterCases ==
  ~opts.Parallel =>
    \A t \in DOMAIN task :
      AtFirstBuild(t) =>
        \A u \in 1..(t - 1) :
          \A n \in 1..Len(File(u).PreRequest) :
            LET o == File(u).PreRequest[n]
            IN (/\ o.op = "setVar"
                /\ <<"preScript", runnable[u], iterIdx, 0>> \in events
                /\ \A w \in (u + 1)..(t - 1) : o.key \notin DOMAIN File(w).VarsPost
                /\ o.key \notin DOMAIN File(t).VarsPre)
               => (o.key \in DOMAIN task[t].exp /\ task[t].exp[o.key] = o.val)

\* C14: in sequential mode, once a case with a vars:post-response entry
\* k = v has received a response, every later case of the same iteration
\* starts with k resolving to v (unless its own vars:pre-request sets k),
\* and a case starts with no variable other than the env-file, caller and
\* iteration variables, its own vars:pre-request and the post-response
\* entries of the earlier cases of its own iteration: the values of a
\* previous iteration are gone.
C14_VarsPostWithinIterationOnly ==
  ~opts.Parallel =>
    \A t \in DOMAIN task :
      AtFirstBuild(t) =>
        /\ \A u \in 1..(t - 1) :
             \A k \in DOMAIN File(u).VarsPost :
               (/\ \E r \in 0..Repeat(File(u)) : <<"tests", runnable[u], iterIdx, r>> \in events
                /\ \A w \in (u + 1)..(t - 1) : k \notin DOMAIN File(w).VarsPost
                /\ k \notin DOMAIN File(t).VarsPre)
               => (k \in DOMAIN task[t].exp /\ task[t].exp[k] = File(u).VarsPost[k])
        /\ \A k \in DOMAIN task[t].exp :
             \/ k \in DOMAIN envVars
             \/ k \in DOMAIN iterations[iterIdx + 1].vars
             \/ k \in DOMAIN File(t).VarsPre
             \/ \E u \in 1..(t - 1) :
                  /\ k \in DOMAIN File(u).VarsPost
                  /\ \E r \in 0..Repeat(File(u)) : <<"tests", runnable[u], iterIdx, r>> \in events

\* In the second iteration of a sequential run of a.bru and sub/b.bru, a.bru
\* starts without tok, although in the first iteration its post-response
\* entry tok = t1 let sub/b.bru resolve its URL.
C14_Witness ==
  /\ ~opts.Parallel
  /\ iterIdx = 1
  /\ runnable = <<1, 2>>
  /\ AtFirstBuild(1)
  /\ "tok" \notin DOMAIN task[1].exp
  /\ <<"tests", 1, 0, 0>> \in events
  /\ <<"dispatch", 2, 0, 0>> \in events

\* C15: in parallel mode every case task works on its own clone of the
\* iteration's variable map and iteration data: whatever the other cases
\* wrote (bru.setVar, iterationData.set/unset, vars:post-response), in this
\* iteration or an earlier one, the iteration's map and the plan's data stay
\* as built, a case starts from exactly the env/caller/iteration variables
\* plus its own vars:pre-request and from the plan's data, and a step of one
\* task changes the maps of no other task.
C15_ParallelTasksIsolated ==
  /\ []((opts.Parallel /\ pc = "collect") =>
          /\ iterVars = MapsCopy(envVars, iterations[iterIdx + 1].vars)
          /\ \A i \in 1..Len(iterations) :
               iterations[i].data = EmptyMap /\ iterations[i].vars = EmptyMap
          /\ \A t \in DOMAIN task :
               AtFirstBuild(t) =>
                 /\ task[t].exp = MapsCopy(MapsCopy(envVars, iterations[iterIdx + 1].vars),
                                           File(t).VarsPre)
                 /\ task[t].data = EmptyMap)
  /\ [][(opts.Parallel /\ pc = "collect" /\ pc' = "collect") =>
          Cardinality({t \in DOMAIN task : task'[t] # task[t]}) <= 1]_vars

\* In the second iteration of a parallel run, c.bru has written tok and row
\* in its own maps while the other case starts without them, although c.bru
\* wrote them in the first iteration as well.
C15_Witness ==
  /\ opts.Parallel
  /\ iterIdx = 1
  /\ <<"preScript", 3, 0, 0>> \in events
  /\ \E t, u \in DOMAIN task :
       /\ runnable[t] = 3
       /\ task[t].pc = "dispatch"
       /\ "tok" \in DOMAIN task[t].exp
       /\ "row" \in DOMAIN task[t].data
       /\ AtFirstBuild(u)
       /\ "tok" \notin DOMAIN task[u].exp

\* What the inputs and the environment decide for case f in iteration it,
\* with no reference to the mode: skipped by meta.skip or the tests-only
\* gate, failed when a request or a test phase of it failed, else passed.
EnvOutcome(f, it) ==
  IF Catalog[f].Skip
       \/ (opts.TestsOnly /\ Catalog[f].Tests = << >> /\ Catalog[f].Asserts = << >>)
  THEN "skipped"
  ELSE IF \E e \in events : e[1] \in {"dispatchFailed", "testsFailed"} /\ e[2] = f /\ e[3] = it
       THEN "failed"
       ELSE "passed"

OutcomeOf(r) == IF r.Skipped THEN "skipped" ELSE IF r.Passed THEN "passed" ELSE "failed"

PlannedCases == {<<k, it>> : k \in 1..Len(runnable), it \in 0..(Len(iterations) - 1)}

\* C16: for a collection whose cases write no variable, run with bail off,
\* the returned summary is the same function of the inputs and of what the
\* environment did to each (case, iteration) in parallel mode as in
\* sequential mode: total = |runnable| x |iterations|, cases holds exactly
\* one entry per (case, iteration) with the outcome the environment decided,
\* and passed, failed and skipped count those outcomes; a run-level error
\* returns the empty summary in both modes.
C16_SummaryIndependentOfMode ==
  pc = "done" =>
    IF retErr # NoErr THEN summary = ZeroSummary
    ELSE LET n == Len(runnable)
             count(o) == Cardinality({c \in PlannedCases : EnvOutcome(runnable[c[1]], c[2]) = o})
         IN /\ summary.Total = n * Len(iterations)
            /\ Len(summary.Cases) = summary.Total
            /\ \A c \in PlannedCases :
                 Cardinality({j \in (c[2] * n + 1)..((c[2] + 1) * n) :
                    /\ summary.Cases[j].FilePath = Catalog[runnable[c[1]]].FilePath
                    /\ OutcomeOf(summary.Cases[j]) = EnvOutcome(runnable[c[1]], c[2])}) = 1
            /\ summary.Passed = count("passed")
            /\ summary.Failed = count("failed")
            /\ summary.Skipped = count("skipped")

\* A parallel run of e.bru and f.bru over two iterations returned with the
\* first iteration's results in completion order (f before e), one of them
\* failed.
C16_Witness ==
  /\ opts.Parallel
  /\ ReturnedOK
  /\ runnable = <<5, 6>>
  /\ Len(summary.Cases) = 4
  /\ summary.Cases[1].FilePath = "f.bru"
  /\ ~summary.Cases[1].Passed
  /\ summary.Cases[2].Passed

HookErrors ==
  {<<"pre hook error">>, <<"pre-hook failed:">>, <<"post hook error">>, <<"post-hook failed:">>}

\* C17: once an in-process or external pre or post hook has failed, the run
\* is aborting: it never reaches another iteration, RunFolder can only
\* return a non-nil error with the empty RunSummary (results collected
\* before are discarded), and in sequential mode it returns the hook's
\* error and nothing after the failing case is executed.
C17_HookFailureAbortsRun ==
  \A e \in events :
    e[1] = "hookFailed" =>
      /\ iterIdx = e[3]
      /\ pc \in {"seqWait", "collect", "done"}
      /\ pc = "done" => (retErr # NoErr /\ summary = ZeroSummary)
      /\ ~opts.Parallel =>
           /\ \A e2 \in events : Pos(e2) <= Pos(e)
           /\ pc = "done" => retErr \in HookErrors

\* A sequential run returned the error of an external post hook that failed
\* on its second case, with an empty summary although the first case's
\* result had been collected.
C17_Witness ==
  /\ ~opts.Parallel
  /\ pc = "done"
  /\ retErr = <<"post-hook failed:">>
  /\ summary = ZeroSummary
  /\ caseCount = 1
  /\ \E e \in events : e[1] = "hookFailed" /\ e[2] = runnable[2]

\* The phases of a repetition in the order executeParsed goes through them.
PhaseOrder ==
  <<"build", "preHook", "extPre", "preScript", "dispatch", "tests", "postHook", "extPost">>

PhaseRank(ph) == CHOOSE k \in 1..Len(PhaseOrder) : PhaseOrder[k] = ph

InPhase(tk) == \E k \in 1..Len(PhaseOrder) : PhaseOrder[k] = tk.pc

\* Whether the k-th phase is configured for file p in this run.
PhaseConfigured(p, k) ==
  CASE k = 2 -> runner.preHook
    [] k = 3 -> opts.PreHookCmd
    [] k = 4 -> p.PreRequest # << >>
    [] k = 7 -> runner.postHook
    [] k = 8 -> opts.PostHookCmd
    [] OTHER -> TRUE

\* C18: within each repetition of a non-skipped case the phases occur in the
\* fixed order build request, in-process pre hook, external pre hook, JS
\* pre-request script, HTTP dispatch, post-response script and assertions
\* with the vars:post-response merge, in-process post hook, external post
\* hook. When a repetition stands at a phase, exactly the configured phases
\* before it have run for this repetition and neither it nor a later one
\* has; the post hooks start with vars:post-response already merged into
\* the expander; and a step takes a repetition only to a later phase, or
\* from its post-response part to the build of the next repetition, so no
\* phase runs twice and none starts before the previous one returned.
C18_PhasesInFixedOrder ==
  /\ [](\A t \in DOMAIN task :
          InPhase(task[t]) =>
            LET p == Catalog[runnable[t]]
                k == PhaseRank(task[t].pc)
            IN /\ \A j \in 1..Len(PhaseOrder) :
                    (<<PhaseOrder[j], runnable[t], iterIdx, task[t].i>> \in events)
                      <=> (j < k /\ PhaseConfigured(p, j))
               /\ PhaseConfigured(p, k)
               /\ k >= 7 => MapsCopy(task[t].exp, p.VarsPost) = task[t].exp)
  /\ [][\A t \in DOMAIN task :
          (t \in DOMAIN task' /\ InPhase(task[t]) /\ InPhase(task'[t])) =>
             \/ task'[t].pc = task[t].pc /\ task'[t].i = task[t].i
             \/ /\ task'[t].i = task[t].i
                /\ PhaseRank(task'[t].pc) > PhaseRank(task[t].pc)
             \/ /\ task'[t].i = task[t].i + 1
                /\ task'[t].pc = "build"
                /\ PhaseRank(task[t].pc) >= 6]_vars

\* The second repetition of c.bru stands at the external post hook: with
\* both in-process hooks, both hook commands and a pre-request script, all
\* seven phases before it have run for this repetition.
C18_Witness ==
  \E t \in DOMAIN task :
    /\ runnable[t] = 3
    /\ task[t].pc = "extPost"
    /\ task[t].i = 1
    /\ runner.preHook /\ runner.postHook /\ opts.PreHookCmd /\ opts.PostHookCmd
    /\ \A j \in 1..7 : <<PhaseOrder[j], 3, iterIdx, 1>> \in events

\* The name a hook is to see for each file of the catalog: meta.name, or the
\* base name of the file where meta.name is empty.
ExpectedHookName == <<"A", "b.bru", "c.bru", "D", "E", "f.bru">>

IsHookInfo(e) == e[1] \in {"preHookInfo", "postHookInfo"}

\* C19: the HookInfo an in-process hook is handed comes from the live
\* request at the time of the call. The pre hook sees the method and the URL
\* of the request just built: the file's URL with every placeholder
\* expanded, the request the repetition holds when the hook returns. The
\* post hook sees the request as sent: the URL the pre-request script
\* assigned where it assigned one, else the URL the pre hook saw, and it is
\* the request the repetition holds when the hook returns. The name is
\* meta.name, or the file's base name when meta.name is empty.
C19_HookInfoFromLiveRequest ==
  /\ \A e \in events :
       IsHookInfo(e) =>
         LET p == Catalog[e[2]]
             info == e[5]
         IN /\ info.Name = ExpectedHookName[e[2]]
            /\ info.FilePath = p.FilePath
            /\ info.Method = p.Verb
            /\ \A k \in 1..Len(info.URL) : info.URL[k].kind = "lit"
            /\ e[1] = "preHookInfo" =>
                 /\ Len(info.URL) = Len(p.URL)
                 /\ \A k \in 1..Len(p.URL) :
                      /\ p.URL[k].kind = "lit" => info.URL[k] = p.URL[k]
                      /\ (p.URL[k].kind = "var" /\ p.URL[k].name \in DOMAIN opts.Vars) =>
                           info.URL[k] = Lit(opts.Vars[p.URL[k].name])
            /\ e[1] = "postHookInfo" =>
                 IF \E n \in 1..Len(p.PreRequest) : p.PreRequest[n].op = "setUrl"
                 THEN info.URL = <<Lit("http://h/c2")>>
                 ELSE <<"preHookInfo", e[2], e[3], e[4], info>> \in events
  /\ \A t \in DOMAIN task :
       /\ task[t].pc = "extPre" =>
            \E e \in events :
              /\ IsHookInfo(e)
              /\ e = <<"preHookInfo", runnable[t], iterIdx, task[t].i, e[5]>>
              /\ e[5].URL = task[t].req.URL
              /\ e[5].Method = task[t].req.Method
       /\ task[t].pc = "extPost" =>
            \E e \in events :
              /\ IsHookInfo(e)
              /\ e = <<"postHookInfo", runnable[t], iterIdx, task[t].i, e[5]>>
              /\ e[5].URL = task[t].req.URL
              /\ e[5].Method = task[t].req.Method

\* For one repetition of c.bru, which has no meta.name and whose pre-request
\* script assigns req.url, the pre hook saw the built URL and the post hook
\* the assigned one, both under the name c.bru.
C19_Witness ==
  \E e1 \in events, e2 \in events :
    /\ e1[1] = "preHookInfo" /\ e2[1] = "postHookInfo"
    /\ e1[2] = 3 /\ e2[2] = 3 /\ e1[3] = e2[3] /\ e1[4] = e2[4]
    /\ e1[5].URL = <<Lit("http://h"), Lit("/c")>>
    /\ e2[5].URL = <<Lit("http://h/c2")>>
    /\ e1[5].Name = "c.bru" /\ e2[5].Name = "c.bru"

\* max(1, meta.repeat) of catalog file f.
MaxRepetitions(f) == IF Catalog[f].Repeat > 1 THEN Catalog[f].Repeat ELSE 1

\* Repetition r of file f in iteration it did not produce a passing result.
RepetitionFailed(evs, f, it, r) ==
  <<"testsFailed", f, it, r>> \in evs \/ <<"dispatchFailed", f, it, r>> \in evs

\* What executeParsed has just returned for task t (after a step that ends it).
ReturnedNow(t) ==
  IF opts.Parallel THEN outCh'[Len(outCh')]
  ELSE [res |-> task'[t].result, err |-> task'[t].err]

\* C20: a non-skipped case with meta.repeat = n goes through at most
\* max(1, n) repetitions per execution, each dispatching at most one request
\* (n <= 0: only repetition 0). Repetitions run one after another: a
\* repetition after the first exists only when the one before it ran its
\* post-response phase with a passing result, and the case under execution
\* is in the latest repetition that has run anything. The CaseResult
\* returned without error is the one of the last repetition executed: it
\* passes exactly when that repetition did not fail, and then the
\* repetition was the last of the max(1, n).
C20_RepeatStopsAtFirstFailure ==
  /\ [](/\ \A e \in events :
             /\ e[4] < MaxRepetitions(e[2])
             /\ e[4] > 0 =>
                  /\ <<"tests", e[2], e[3], e[4] - 1>> \in events
                  /\ ~RepetitionFailed(events, e[2], e[3], e[4] - 1)
        /\ \A t \in DOMAIN task :
             InPhase(task[t]) =>
               \A e \in events :
                 (e[2] = runnable[t] /\ e[3] = iterIdx) => e[4] <= task[t].i)
  /\ [][\A t \in DOMAIN task :
          (task[t].pc = "dispatch" /\ t \in DOMAIN task' /\ task'[t] # task[t]) =>
             /\ <<"dispatch", runnable[t], iterIdx, task[t].i>> \notin events
             /\ <<"dispatch", runnable[t], iterIdx, task[t].i>> \in events']_vars
  /\ [][\A t \in DOMAIN task :
          (InPhase(task[t]) /\ t \in DOMAIN task' /\ task'[t].pc \in {"ret", "sent"}) =>
             LET r == ReturnedNow(t)
                 f == runnable[t]
                 i == task[t].i
             IN r.err = NoErr =>
                  /\ r.res.FilePath = Catalog[f].FilePath
                  /\ r.res.RequestURL = task[t].req.URL
                  /\ r.res.Passed <=> ~RepetitionFailed(events', f, iterIdx, i)
                  /\ r.res.Passed => i + 1 = MaxRepetitions(f)
                  /\ task[t].pc \in {"postHook", "extPost"} => r.res = task[t].result
                  /\ \A e \in events' : (e[2] = f /\ e[3] = iterIdx) => e[4] <= i]_vars

\* c.bru has meta.repeat 2: in the first iteration its first repetition
\* failed and no second one ran; in the second iteration both repetitions
\* dispatched and the case has returned the passing result of the second.
C20_Witness ==
  /\ ~opts.Parallel
  /\ iterIdx = 1
  /\ RepetitionFailed(events, 3, 0, 0)
  /\ \A e \in events : (e[2] = 3 /\ e[3] = 0) => e[4] = 0
  /\ <<"dispatch", 3, 1, 0>> \in events
  /\ <<"dispatch", 3, 1, 1>> \in events
  /\ \E t \in DOMAIN task :
       /\ runnable[t] = 3
       /\ task[t].pc = "ret"
       /\ task[t].err = NoErr
       /\ task[t].result.Passed

\* The dataset at a path is readable and well formed, with this many rows.
CSVWellFormed(path) ==
  /\ path \in DOMAIN CSVFiles
  /\ CSVFiles[path] # << >>
  /\ \A i \in 1..Len(CSVFiles[path]) : Len(CSVFiles[path][i]) = Len(CSVFiles[path][1])

JSONWellFormed(path) ==
  /\ path \in DOMAIN JSONFiles
  /\ JSONFiles[path].valid /\ JSONFiles[path].array
  /\ \A i \in 1..Len(JSONFiles[path].items) : JSONFiles[path].items[i].object

\* C21: the iteration planner never yields an empty plan: it returns an
\* error and no plan, or a plan of at least one iteration. With neither
\* dataset it returns exactly max(1, iterationCount) iterations, each with
\* empty vars and data; with both a CSV and a JSON path it returns an error;
\* with one dataset (readable, well formed) it returns one iteration per data
\* row, in file order, holding that row's values, or an error when there
\* are no rows.
C21_PlannerNeverYieldsEmptyPlan ==
  (call.fn = "buildIterations" /\ ret.done) =>
    LET o == call.opts
        r == ret.val
        csv == o.CSVFilePath
        json == o.JSONFilePath
    IN /\ IF r.err = NoErr THEN Len(r.its) >= 1 ELSE r.its = << >>
       /\ (csv = "" /\ json = "") =>
            /\ r.err = NoErr
            /\ Len(r.its) = (IF o.IterationCount > 1 THEN o.IterationCount ELSE 1)
            /\ \A i \in 1..Len(r.its) : r.its[i] = [vars |-> EmptyMap, data |-> EmptyMap]
       /\ (csv # "" /\ json # "") => r.err # NoErr
       /\ (csv # "" /\ json = "" /\ CSVWellFormed(csv)) =>
            LET recs == CSVFiles[csv]
            IN IF Len(recs) = 1 THEN r.err # NoErr
               ELSE /\ r.err = NoErr
                    /\ Len(r.its) = Len(recs) - 1
                    /\ \A i \in 1..Len(r.its) : \A h \in 1..Len(recs[1]) :
                         /\ r.its[i].vars[TrimSpace(recs[1][h])] = TrimSpace(recs[i + 1][h])
                         /\ r.its[i].data[TrimSpace(recs[1][h])] = Str(TrimSpace(recs[i + 1][h]))
       /\ (csv = "" /\ json # "" /\ JSONWellFormed(json)) =>
            LET items == JSONFiles[json].items
            IN IF items = << >> THEN r.err # NoErr
               ELSE /\ r.err = NoErr
                    /\ Len(r.its) = Len(items)
                    /\ \A i \in 1..Len(r.its) :
                         /\ r.its[i].data = items[i].fields
                         /\ DOMAIN r.its[i].vars = DOMAIN items[i].fields

\* The planner returned, for an iteration count of 0 and the CSV file of two
\* data rows, the two rows in file order.
C21_Witness ==
  /\ call.fn = "buildIterations"
  /\ call.opts.IterationCount = 0
  /\ call.opts.CSVFilePath = "two.csv"
  /\ call.opts.JSONFilePath = ""
  /\ ret.done
  /\ ret.val.err = NoErr
  /\ ret.val.its = << [vars |-> [k |-> "a", n |-> "1"], data |-> [k |-> Str("a"), n |-> Str("1")]],
                      [vars |-> [k |-> "b", n |-> "2"], data |-> [k |-> Str("b"), n |-> Str("2")]] >>

\* Something of file f ran in iteration it; that iteration's case failed.
IterationRan(f, it) == \E e \in events : e[2] = f /\ e[3] = it

IterationFailed(f, it) ==
  \E r \in 0..(MaxRepetitions(f) - 1) : RepetitionFailed(events, f, it, r)

\* C22: RunFile executes the single parsed case once per planned iteration,
\* in plan order: nothing runs for an iteration after the current one, every
\* earlier iteration has been executed, and an iteration is started only if
\* nothing of it has run. The result of each iteration becomes the result to
\* return. Without an error RunFile returns the result of the last planned
\* iteration, whatever earlier iterations gave, unless bail is set and an
\* iteration failed: then it returns the failed result of the first such
\* iteration and no later iteration is executed.
C22_RunFileReturnsLastIteration ==
  /\ [](pc \in {"file", "fileWait", "fileSleep", "done"} /\ iterations # << >> =>
          LET f == runnable[1]
              n == Len(iterations)
          IN /\ \A e \in events : e[2] = f /\ e[3] <= iterIdx /\ e[3] < n
             /\ \A it \in 0..(iterIdx - 1) : ShouldSkip(Catalog[f]) \/ IterationRan(f, it)
             /\ (pc = "done" /\ retErr = NoErr) =>
                  IF opts.Bail /\ IsFailed(last)
                  THEN /\ iterIdx < n
                       /\ IterationFailed(f, iterIdx)
                       /\ \A it \in 0..(iterIdx - 1) : ~IterationFailed(f, it)
                  ELSE /\ iterIdx = n
                       /\ last.FilePath = Catalog[f].FilePath
                       /\ last.Skipped \/ (last.Passed <=> ~IterationFailed(f, n - 1))
                       /\ opts.Bail => \A it \in 0..(n - 1) : ~IterationFailed(f, it))
  /\ [][(pc = "fileWait" /\ pc' # "fileWait" /\ task[1].err = NoErr) =>
          last' = task[1].result]_vars
  /\ [][(pc = "file" /\ pc' = "fileWait") => ~IterationRan(runnable[1], iterIdx)]_vars

\* RunFile on a.bru without bail has returned, without error, the passing
\* result of the second of two iterations although the first one failed.
C22_Witness ==
  /\ pc = "done"
  /\ retErr = NoErr
  /\ files = <<1>>
  /\ ~opts.Bail
  /\ Len(iterations) = 2
  /\ iterIdx = 2
  /\ IterationFailed(1, 0)
  /\ IterationRan(1, 1)
  /\ last.Passed /\ ~last.Skipped

\* The inter-case delays slept so far; the cases started so far (the one
\* being slept for or under execution, or ended by an error, included).
DelayEvents == {e \in events : e[1] = "interDelay"}

CasesStarted ==
  IF pc \in {"sleep", "seqWait"} \/ (pc = "done" /\ retErr # NoErr)
  THEN caseCount + 1 ELSE caseCount

\* C23: in sequential RunFolder no inter-case delay is applied before the
\* first case of the run; a delay is slept only where opts.delay plus the
\* case's meta.delayMs is positive, only after the previous case ended and
\* was accumulated, and every later case with a positive delay starts after
\* its delay was slept; so when every case has a positive delay, a run of n
\* cases contains exactly n-1 inter-case delays.
C23_DelayBetweenCasesOnly ==
  (pc # "idle" /\ runnable # << >>) =>
    /\ <<"interDelay", runnable[1], 0, 0>> \notin events
    /\ \A e \in DelayEvents : InterCaseDelay(e[2]) > 0
    /\ pc = "sleep" =>
         /\ \A t \in DOMAIN task : task[t].pc = "idle"
         /\ caseCount >= 1
         /\ caseCount = iterIdx * Len(runnable) + caseIdx - 1
    /\ (pc = "seqWait" /\ (iterIdx > 0 \/ caseIdx > 1)
          /\ InterCaseDelay(runnable[caseIdx]) > 0) =>
         <<"interDelay", runnable[caseIdx], iterIdx, 0>> \in events
    /\ (\A k \in 1..Len(runnable) : InterCaseDelay(runnable[k]) > 0) =>
         Cardinality(DelayEvents) = (IF CasesStarted = 0 THEN 0 ELSE CasesStarted - 1)

\* A sequential run of two cases over two iterations with opts.Delay set has
\* returned its four results after three inter-case delays.
C23_Witness ==
  /\ pc = "done"
  /\ retErr = NoErr
  /\ opts.Delay > 0
  /\ Len(runnable) = 2
  /\ Len(iterations) = 2
  /\ caseCount = 4
  /\ Len(summary.Cases) = 4
  /\ Cardinality(DelayEvents) = 3

\* C24: cancelling the caller's context interrupts every suspension point of
\* a run. Once the context is cancelled, a pending inter-case sleep of
\* RunFolder and a pending sleep between RunFile iterations end with the
\* run returning, not with the next case or iteration starting; a pending
\* meta.delayMs sleep ends with executeParsed returning the context's error;
\* and an HTTP dispatch ends in a failure, not in a response.
C24_CancellationInterruptsEverySuspension ==
  [][ctxCancelled =>
       /\ (pc = "sleep" /\ pc' # "sleep") => pc' = "done"
       /\ (pc = "fileSleep" /\ pc' # "fileSleep") => pc' = "done"
       /\ \A t \in DOMAIN task :
            (t \in DOMAIN task' /\ task'[t] # task[t]) =>
               /\ task[t].pc = "delay" => (task'[t].pc = "ret" /\ task'[t].err # NoErr)
               /\ task[t].pc = "dispatch" => (task'[t].pc = "ret" /\ ~task'[t].result.Passed)]_vars

\* What holds of cancellation: the meta.delayMs sleep and the HTTP dispatch
\* end at once on a cancelled context.
CancellationInterruptsMetaDelayAndDispatch ==
  [][ctxCancelled =>
       \A t \in DOMAIN task :
         (t \in DOMAIN task' /\ task'[t] # task[t]) =>
            /\ task[t].pc = "delay" => (task'[t].pc = "ret" /\ task'[t].err # NoErr)
            /\ task[t].pc = "dispatch" => (task'[t].pc = "ret" /\ ~task'[t].result.Passed)]_vars

\* File f is excluded by the run's tag filter; file f is skipped by
\* meta.skip or gated by tests-only; the positions of f's results.
TagExcluded(f) ==
  \/ (opts.Tags # {} /\ Catalog[f].Tags \cap opts.Tags = {})
  \/ Catalog[f].Tags \cap opts.ExcludeTags # {}

SkipGated(f) ==
  \/ Catalog[f].Skip
  \/ (opts.TestsOnly /\ Catalog[f].Tests = << >> /\ Catalog[f].Asserts = << >>)

ResultsOf(f) ==
  {k \in 1..Len(summary.Cases) : summary.Cases[k].FilePath = Catalog[f].FilePath}

\* C25: in RunFolder a discovered case excluded by the tag include/exclude
\* filter yields no CaseResult at all and is not counted in total, whereas a
\* case with meta.skip, or gated by tests-only because it has neither tests
\* nor asserts, yields in every iteration a CaseResult with skipped = true
\* that is counted in skipped and in total; no other case yields a skipped
\* result.
C25_FilteredCasesAbsentSkippedCasesCounted ==
  pc # "idle" =>
    /\ \A i \in 1..Len(files) :
         LET f == files[i]
         IN /\ TagExcluded(f) =>
                 /\ ResultsOf(f) = {}
                 /\ \A k \in 1..Len(runnable) : runnable[k] # f
            /\ (~TagExcluded(f) /\ SkipGated(f)) =>
                 /\ \A k \in ResultsOf(f) :
                      summary.Cases[k].Skipped /\ summary.Cases[k].Passed
                 /\ (ReturnedOK /\ ~BailHit) => Cardinality(ResultsOf(f)) = Len(iterations)
            /\ (~TagExcluded(f) /\ ~SkipGated(f)) =>
                 \A k \in ResultsOf(f) : ~summary.Cases[k].Skipped
    /\ retErr = NoErr =>
         summary.Total =
           Len(iterations) * Cardinality({i \in 1..Len(files) : ~TagExcluded(files[i])})
    /\ summary.Skipped = CasesWhere(LAMBDA r : r.Skipped)
    /\ summary.Skipped <= summary.Total

\* A tests-only run over a.bru, which has tests, and sub/b.bru, which has
\* neither tests nor asserts, returned total = 2, passed = 1, skipped = 1.
C25_Witness ==
  /\ ReturnedOK
  /\ opts.TestsOnly
  /\ files = <<1, 2>>
  /\ Len(iterations) = 1
  /\ summary.Total = 2 /\ summary.Passed = 1 /\ summary.Skipped = 1 /\ summary.Failed = 0
  /\ summary.Cases[2].Skipped /\ ~summary.Cases[1].Skipped

\* The tests the tests body registers, the lines a script logs before its
\* first throw, and whether a script throws.
RegisteredTests(code) == SelectSeq(code, LAMBDA st : st.op = "test")

Throws(code) == \E k \in 1..Len(code) : code[k].op = "throw"

FirstThrow(code) ==
  IF Throws(code) THEN CHOOSE k \in 1..Len(code) :
                         code[k].op = "throw" /\ \A j \in 1..(k - 1) : code[j].op # "throw"
  ELSE Len(code) + 1

LoggedBy(code) ==
  LET ran == SubSeq(code, 1, FirstThrow(code) - 1)
      logs == SelectSeq(ran, LAMBDA st : st.op = "log")
  IN [i \in 1..Len(logs) |-> logs[i].line]

NamesOf(sts) == [i \in 1..Len(sts) |-> sts[i].name]

TestPhaseRan == call.fn = "executeTests" /\ ret.done /\ ret.val.err = NoErr

RECURSIVE CallbackLines(_, _)
CallbackLines(reg, k) ==
  IF k > Len(reg) THEN << >> ELSE LoggedBy(reg[k].fn) \o CallbackLines(reg, k + 1)

NoLogs(code) == SelectSeq(code, LAMBDA st : st.op # "log")

WithoutConsole(p) ==
  LET body == NoLogs(p.TestsRaw)
  IN [p EXCEPT !.PostResponse = NoLogs(@), !.PreRequest = NoLogs(@),
               !.TestsRaw = [i \in 1..Len(body) |->
                               IF body[i].op = "test"
                               THEN Test(body[i].name, NoLogs(body[i].fn))
                               ELSE body[i]]]

\* C27: CaseResult.console holds, in call order, one line for every
\* console.log call made while the post-response script, the tests body and
\* the test(...) callbacks ran, and console output changes neither passed nor
\* failures.
C27_ConsoleHoldsEveryLoggedLine ==
  TestPhaseRan =>
    LET p == call.p
        quiet == executeTestsJS(WithoutConsole(p))
    IN /\ SelectSeq(ret.val.result.Console, LAMBDA l : l # "pre") =
            LoggedBy(p.PostResponse) \o LoggedBy(p.TestsRaw)
              \o CallbackLines(RegisteredTests(p.TestsRaw), 1)
       /\ ret.val.result.Passed = quiet.result.Passed
       /\ ret.val.result.Failures = quiet.result.Failures

\* What the result does hold: the lines logged before the assert and test
\* loops start, and the same passed and failures as without any console.log.
ConsoleHoldsLinesLoggedBeforeTestLoop ==
  TestPhaseRan =>
    LET p == call.p
        quiet == executeTestsJS(WithoutConsole(p))
    IN /\ ret.val.result.Console =
            LoggedBy(p.PostResponse) \o LoggedBy(p.PreRequest) \o LoggedBy(p.TestsRaw)
       /\ ret.val.result.Passed = quiet.result.Passed
       /\ ret.val.result.Failures = quiet.result.Failures

\* C28: the tag filter accepts a case exactly when the include list is empty
\* or holds one of the case's tags, and no tag of the case is in the exclude
\* list; so a case without tags is rejected by every non-empty include list,
\* and a tag in the exclude list rejects the case whatever the include list
\* says.
C28_TagFilterIncludeThenExclude ==
  (call.fn = "passesTagFilter" /\ ret.done) =>
    LET tags == call.tags
        include == call.include
        exclude == call.exclude
    IN /\ ret.val = (/\ include = {} \/ \E t \in tags : t \in include
                     /\ \A t \in tags : t \notin exclude)
       /\ (tags = {} /\ include # {}) => ~ret.val
       /\ (\E t \in tags : t \in exclude) => ~ret.val

\* A case tagged smoke and slow was rejected by include smoke, exclude slow.
C28_Witness ==
  /\ call.fn = "passesTagFilter" /\ ret.done
  /\ call.tags = {"smoke", "slow"}
  /\ call.include = {"smoke"}
  /\ call.exclude = {"slow"}
  /\ ret.val = FALSE

\* C29: reporter header filtering is idempotent: filtering the output of
\* FilterReportHeaders again with the same options gives that output back.
C29_FilterReportHeadersIdempotent ==
  (call.fn = "FilterReportHeaders" /\ ret.done /\ ret.again) => ret.val = call.sum

\* A summary whose case sent authorization, proxy-authorization and x-foo was
\* filtered twice with a skip list naming two of them; authorization stayed,
\* masked.
C29_Witness ==
  /\ call.fn = "FilterReportHeaders" /\ ret.done /\ ret.again
  /\ call.opts = [ReporterSkipAllHeaders |-> FALSE,
                  ReporterSkipHeaders |-> <<"PROXY-AUTHORIZATION", " X-Foo ">>]
  /\ Len(ret.val) = 1
  /\ ret.val[1].RequestHeaders = MakeMap([k \in {"authorization"} |-> Masked])

\* The header maps of the cases of a summary.
HeaderMapsOf(sum) ==
  {sum[i].RequestHeaders : i \in 1..Len(sum)} \cup {sum[i].ResponseHeaders : i \in 1..Len(sum)}

Sensitive == {"authorization", "proxy-authorization"}

\* C30: in the output of FilterReportHeaders, in the request and the response
\* header map of every case, authorization and proxy-authorization are absent
\* when skip-all is set or the skip list names them in any letter case, and
\* otherwise hold "********"; no header of the output holds a secret value.
C30_SensitiveHeadersAbsentOrMasked ==
  (call.fn = "FilterReportHeaders" /\ ret.done) =>
    LET o == call.opts
        named == {ToLower(TrimSpace(o.ReporterSkipHeaders[i])) :
                    i \in 1..Len(o.ReporterSkipHeaders)}
    IN \A h \in HeaderMapsOf(ret.val) :
         /\ o.ReporterSkipAllHeaders => h.nil /\ h.m = EmptyMap
         /\ \A k \in DOMAIN h.m :
              /\ h.m[k] \notin Secrets
              /\ k \in Sensitive => (h.m[k] = Masked /\ k \notin named)

\* A case that sent both sensitive headers came out with authorization masked
\* and proxy-authorization dropped by the skip list.
C30_Witness ==
  /\ call.fn = "FilterReportHeaders" /\ ret.done /\ ~ret.again
  /\ Len(call.sum) = 1
  /\ DOMAIN call.sum[1].RequestHeaders.m = {"authorization", "proxy-authorization", "x-foo"}
  /\ call.sum[1].RequestHeaders.m["authorization"] = "Bearer secret"
  /\ call.sum[1].ResponseHeaders.m = [k \in {"authorization", "x-foo"} |->
                                        IF k = "x-foo" THEN "bar" ELSE "Bearer secret"]
  /\ call.opts.ReporterSkipHeaders = <<"PROXY-AUTHORIZATION", " X-Foo ">>
  /\ ~call.opts.ReporterSkipAllHeaders
  /\ ret.val[1].RequestHeaders = MakeMap([k \in {"authorization"} |-> Masked])
  /\ ret.val[1].ResponseHeaders = MakeMap([k \in {"authorization"} |-> Masked])

\* C33: parallel mode. The first run-level error the collector receives is
\* kept as the iteration's error and cancels the iteration context; from then
\* on nothing is accumulated, neither the result that came with the error nor
\* the results received after it; the collector still receives the result of
\* every task launched for the iteration; RunFolder then returns that first
\* error with an empty summary, and no task of a later iteration has run.
C33_ParallelErrorDrainsThenReturnsFirstError ==
  /\ [](opts.Parallel =>
          /\ (pc = "collect" /\ iterErr # NoErr) => ctxIterDone
          /\ (pc = "done" /\ iterErr # NoErr) =>
               /\ retErr = iterErr
               /\ summary = ZeroSummary
               /\ recv = Len(runnable)
               /\ outCh = << >>
               /\ \A e \in events : e[3] <= iterIdx)
  /\ [][(opts.Parallel /\ pc = "collect") =>
          /\ (iterErr = NoErr /\ iterErr' # NoErr) =>
               /\ outCh # << >>
               /\ iterErr' = Head(outCh).err
               /\ ctxIterDone'
               /\ summary' = summary /\ caseCount' = caseCount
          /\ iterErr # NoErr =>
               /\ iterErr' = iterErr
               /\ pc' = "collect" => (summary' = summary /\ caseCount' = caseCount)
               /\ pc' # "collect" =>
                    (pc' = "done" /\ recv = Len(runnable)
                     /\ \A t \in DOMAIN task : task[t].pc = "sent")]_vars

\* A parallel run of two cases returned the run-level error of the task
\* whose result came first, after it had also received the result of the
\* other task, which had run its tests.
C33_Witness ==
  /\ opts.Parallel
  /\ pc = "done"
  /\ iterErr # NoErr /\ retErr = iterErr
  /\ Len(runnable) = 2 /\ recv = 2
  /\ summary = ZeroSummary
  /\ \E e \in events : e[1] = "runError" /\ e[3] = iterIdx
  /\ \E e \in events : e[1] = "tests" /\ e[3] = iterIdx
       /\ ~\E r \in events : r[1] = "runError" /\ r[2] = e[2] /\ r[3] = e[3]

\* The task goroutines of the iteration that have sent their result.
SentTasks == {t \in DOMAIN task : task[t].pc = "sent"}

\* C34: parallel mode neither deadlocks nor leaks a task. One task is
\* launched per runnable case and the channel holds at most that many
\* results, so a send never waits; a task sends exactly once (what is in the
\* channel plus what was received is what the tasks sent, and a task that has
\* sent stays finished); the collector leaves its loop only when it has
\* received one result per launched task, every task has sent and the
\* channel is empty, on the success, bail and error paths alike; and with
\* every case execution returning, the collector does leave the loop and
\* RunFolder returns.
C34_ParallelNeitherDeadlocksNorLeaks ==
  /\ []((opts.Parallel /\ pc = "collect") =>
          /\ Len(task) = Len(runnable)
          /\ Len(outCh) <= Len(runnable)
          /\ recv <= Len(runnable)
          /\ Len(outCh) + recv = Cardinality(SentTasks))
  /\ [][(opts.Parallel /\ pc = "collect") =>
          /\ pc' = "collect" =>
               /\ SentTasks \subseteq {t \in DOMAIN task' : task'[t].pc = "sent"}
               /\ \A t \in DOMAIN task :
                    (task[t].pc # "sent" /\ task'[t].pc = "sent") =>
                      (Len(outCh') = Len(outCh) + 1 /\ recv' = recv)
          /\ pc' # "collect" =>
               /\ recv = Len(runnable)
               /\ SentTasks = DOMAIN task
               /\ outCh = << >>]_vars
  /\ (pc # "idle") ~> (pc = "done")

\* A parallel run of two cases is collecting: one result has been received,
\* the other task has sent and its result waits in the channel.
C34_Witness ==
  /\ opts.Parallel
  /\ pc = "collect"
  /\ Len(runnable) = 2
  /\ recv = 1
  /\ Len(outCh) = 1
  /\ SentTasks = {1, 2}
  /\ iterIdx = 1

\* What the post-response part of a repetition leaves in the history.
PostResponseKinds ==
  {"tests", "testsFailed", "postHook", "postHookInfo", "extPost"}

\* C35: a transport failure short-circuits the case. The repetition whose
\* dispatch failed runs no post-response script, assert or test and no
\* in-process or external post hook, and no later repetition of that case
\* execution runs anything; the step in which the dispatch fails returns the
\* failed result at once, with a nil error, and leaves the iteration
\* variables as they were (vars:post-response is not merged).
C35_TransportFailureShortCircuits ==
  /\ [](\A e \in events :
          e[1] = "dispatchFailed" =>
            \A x \in events :
              (x[2] = e[2] /\ x[3] = e[3]) =>
                /\ x[4] <= e[4]
                /\ x[4] = e[4] => x[1] \notin PostResponseKinds)
  /\ [][\A t \in DOMAIN task :
          (/\ task[t].pc = "dispatch"
           /\ <<"dispatchFailed", runnable[t], iterIdx, task[t].i>> \in events' \ events) =>
             /\ task'[t].pc \in {"ret", "sent"}
             /\ ReturnedNow(t).err = NoErr
             /\ ReturnedNow(t).res = TransportFailure(Catalog[runnable[t]], task[t])
             /\ ~ReturnedNow(t).res.Passed
             /\ iterVars' = iterVars]_vars

\* In a sequential run with both post hooks configured, the dispatch of
\* a.bru, which has vars:post-response, failed; the case has returned and the
\* iteration variables do not hold the post-response variable.
C35_Witness ==
  /\ ~opts.Parallel
  /\ runner.postHook /\ opts.PostHookCmd
  /\ <<"dispatchFailed", 1, iterIdx, 0>> \in events
  /\ \E t \in DOMAIN task : runnable[t] = 1 /\ task[t].pc = "ret" /\ ~task[t].result.Passed
  /\ "tok" \notin DOMAIN iterVars

\* Task t takes the step that reads the response body (executeTests).
ReadsBody(t) == task[t].pc = "tests" /\ t \in DOMAIN task' /\ task'[t] # task[t]

\* C38: for every dispatched repetition the per-request timeout context made
\* for the dispatch is still live when the response body is read for the
\* post-response scripts and assertions; the runner cancels it only after
\* the body has been read.
C38_RequestContextLiveWhenBodyIsRead ==
  [][\A t \in DOMAIN task : ReadsBody(t) => task[t].reqCtx = "live"]_vars

\* What holds instead: whenever the body is read, the runner has already
\* cancelled the context of the request that produced it.
RequestContextCancelledBeforeBodyIsRead ==
  [][\A t \in DOMAIN task : ReadsBody(t) => task[t].reqCtx = "cancelled"]_vars

\* ---- request building (SpecBuild)
\* The boundary parameter a Content-Type value names ("" when it names none).
BoundaryOf(ct) ==
  IF \E i \in 1..(Len(ct) - 1) : ct[i].name = "; boundary="
  THEN ct[(CHOOSE i \in 1..(Len(ct) - 1) : ct[i].name = "; boundary=") + 1].name
  ELSE ""

Builds == IF call.fn = "buildHTTPRequest" /\ ret.done THEN ret.builds ELSE << >>

\* C31: building the request twice from the same parsed case and the same
\* variables yields the same URL and a byte-identical body, for every body kind
\* (json, graphql, form-urlencoded, multipart-form, xml, text, raw).
C31_BuildTwiceSameURLAndSameBody ==
  \A i, j \in 1..Len(Builds) :
     /\ Builds[i].err = Builds[j].err
     /\ Builds[i].req.URL = Builds[j].req.URL
     /\ Builds[i].req.Body = Builds[j].req.Body

\* What holds instead: two builds agree on the URL and on the body up to the
\* boundary of a multipart body.
BuildTwiceSameURLAndSameBodyUpToBoundary ==
  \A i, j \in 1..Len(Builds) :
     /\ Builds[i].err = Builds[j].err
     /\ Builds[i].req.URL = Builds[j].req.URL
     /\ [Builds[i].req.Body EXCEPT !.boundary = ""] = [Builds[j].req.Body EXCEPT !.boundary = ""]
     /\ Builds[i].req.Body.enc # "multipart" => Builds[i].req.Body = Builds[j].req.Body

\* C36: building the request leaves the parsed case unchanged: no entry of the
\* parsed case's headers map is added or modified.
C36_BuildLeavesParsedHeadersUnchanged ==
  (call.fn = "buildHTTPRequest" /\ ret.done) => ret.headers = call.p.Headers

\* What holds instead: a nil headers map stays nil, and in a non-nil one only
\* the Content-Type entry is added or rewritten.
BuildWritesOnlyContentTypeOfParsedHeaders ==
  (call.fn = "buildHTTPRequest" /\ ret.done) =>
     /\ ret.headers.nil = call.p.Headers.nil
     /\ DOMAIN ret.headers.m \subseteq DOMAIN call.p.Headers.m \cup {"Content-Type"}
     /\ \A k \in DOMAIN call.p.Headers.m :
          k \in DOMAIN ret.headers.m /\ (k # "Content-Type" => ret.headers.m[k] = call.p.Headers.m[k])

\* C37: every request built for a multipart-form body, second and later builds
\* and multipart/related cases included, carries a Content-Type whose boundary
\* parameter equals the boundary that delimits the body.
C37_MultipartContentTypeBoundaryIsBodyBoundary ==
  \A i \in 1..Len(Builds) :
     (Builds[i].err = NoErr /\ Builds[i].req.Body.enc = "multipart") =>
        BoundaryOf(Builds[i].req.Header["Content-Type"]) = Builds[i].req.Body.boundary

\* What holds instead: the boundaries agree on the first build of a parsed
\* case, and on every build unless the parsed case's own headers map names
\* multipart/related.
MultipartBoundaryMatchesOnFirstBuildAndForFormData ==
  \A i \in 1..Len(Builds) :
     (/\ Builds[i].err = NoErr
      /\ Builds[i].req.Body.enc = "multipart"
      /\ \/ i = 1
         \/ call.p.Headers.nil
         \/ "Content-Type" \notin DOMAIN call.p.Headers.m
         \/ \A n \in 1..Len(call.p.Headers.m["Content-Type"]) :
              ToLower(call.p.Headers.m["Content-Type"][n].name) # "multipart/related") =>
        BoundaryOf(Builds[i].req.Header["Content-Type"]) = Builds[i].req.Body.boundary

\* ---- variable maps (SpecVars)
\* C39: RunFolder and RunFile never modify the RunOptions.Vars map the caller
\* supplied: it holds the caller's entries at every step of the call and after
\* it, and no map the run writes to is the caller's map.
C39_CallerVarsNeverModified ==
  (VarsCall /\ ret # NoRet /\ ~call.Vars.nil) =>
     /\ ret.heap[1] = call.Vars.m
     /\ 1 \notin {ret.envVars, ret.iterVars, ret.caseVars, ret.expVars}

\* A call has returned whose caller supplied tok, after the run's own maps
\* took another value for tok.
C39_Witness ==
  /\ VarsCall /\ ret # NoRet /\ ret.step = "return"
  /\ ~call.Vars.nil /\ "tok" \in DOMAIN call.Vars.m
  /\ "tok" \in DOMAIN ret.heap[ret.caseVars]
  /\ ret.heap[ret.caseVars]["tok"] # call.Vars.m["tok"]
  /\ ret.heap[1] = call.Vars.m

\* ---- concurrent calls (SpecConc)
\* What a call returns when it runs alone on the runner as New built it.
SoloResults(r, c) ==
  [k \in 1..Len(c.cases) |->
     ConcCaseResult(r, ExecuteSettings(r, c.opts, c.cases[k]), c.cases[k])]

\* C32: a Gruno instance is safe for concurrent use: concurrent RunFile and
\* RunFolder calls never write the runner's fields, which stay as New set
\* them, and each call returns what it would return running alone.
C32_ConcurrentCallsShareNoWrittenState ==
  call.fn = "concurrent" =>
     /\ runner = call.cfg
     /\ \A i \in 1..2 :
          ret.g[i].pc = "done" => ret.g[i].results = SoloResults(call.cfg, call.calls[i])

\* Two calls with different timeouts have run interleaved on one runner; the
\* one with its own shorter timeout failed its case, the other passed it.
C32_Witness ==
  /\ call.fn = "concurrent" /\ ret.done
  /\ ret.g[1].overlapped /\ ret.g[2].overlapped
  /\ runner.timeout = 3
  /\ call.calls[1].opts.Timeout = 1 /\ call.calls[2].opts.Timeout = 0
  /\ call.calls[1].cases[1].TimeoutMS = 0 /\ call.calls[2].cases[1].TimeoutMS = 0
  /\ ~ret.g[1].results[1].Passed /\ ret.g[2].results[1].Passed

====
